---- MODULE Spec2Model ----
(***************************************************************************)
(* A state-machine model of the evolutionary-search engine: Agent          *)
(* (src/src/agent.rs), Population (src/src/population.rs), the             *)
(* ScoreProvider (src/src/fitness.rs), the operation pipeline              *)
(* (src/src/operations.rs, src/src/evolution.rs) and the Manager           *)
(* (src/src/manager.rs).                                                   *)
(*                                                                         *)
(* Vec indices are 0-based in the source and 1-based here: position i of   *)
(* the source is element i + 1 of the sequence.  A panic of the source     *)
(* (an unwrap of an Err, gen_range on an empty range, an index out of      *)
(* range) is the outcome "panicked" of the step that raises it.            *)
(***************************************************************************)
EXTENDS Integers, Sequences, FiniteSets, TLC

\* ------------------------------------------------------------------ bounds
\* Gene values are 0 .. MaxGene (the host's Gene type, sampled uniformly).
MaxGene == 1
\* Genome lengths explored for a single Agent are 0 .. MaxLen.
MaxLen == 3

Gene == 0 .. MaxGene

Min2(a, b) == IF a <= b THEN a ELSE b

\* All gene sequences of length n.
RECURSIVE GenesOfLen(_)
GenesOfLen(n) ==
  IF n = 0 THEN {<<>>}
  ELSE {Append(s, g) : s \in GenesOfLen(n - 1), g \in Gene}

\* ------------------------------------------------------------------- Agent
\* The content hash of a gene sequence (DefaultHasher over the Vec: the
\* length, then every element).  The 64-bit digest is modelled by a
\* positional code of the same inputs, which separates all genomes of the
\* bounded domain.
RECURSIVE HashFrom(_, _)
HashFrom(h, genes) ==
  IF genes = <<>> THEN h
  ELSE HashFrom(h * (MaxGene + 2) + Head(genes) + 1, Tail(genes))

ContentHash(genes) == HashFrom(Len(genes) + 1, genes)

\* Agent::new: the sampled genes and the eagerly computed hash.
AgentOf(genes) == [genes |-> genes, hash |-> ContentHash(genes)]

\* Every Agent that Agent::new(number_of_genes) can return.
AgentNew(number_of_genes) == {AgentOf(g) : g \in GenesOfLen(number_of_genes)}

\* A mutate or crossover that leaves the hash field as it was.
RehashSkipped(a, genes) == [genes |-> genes, hash |-> a.hash]

\* The end of mutate and of crossover_some_genes: `a` holds `genes` now, and
\* its hash field is set to the digest of a fresh DefaultHasher over them.
Rehashed(a, genes) == [genes |-> genes, hash |-> ContentHash(genes)]

\* Vec::remove(index): needs index < len.
RemoveAt(s, index) ==
  SubSeq(s, 1, index) \o SubSeq(s, index + 2, Len(s))

\* Vec::insert(index, element): needs index <= len.
InsertAt(s, index, g) ==
  SubSeq(s, 1, index) \o <<g>> \o SubSeq(s, index + 1, Len(s))

\* rng.gen_range(low, high): the values it can return; it panics when the
\* range is empty (low >= high).
GenRange(low, high) == low .. (high - 1)

GenRangePanics(low, high) == low >= high

\* The second range of one perturbation of mutate: gen_range(0, gene_count - 1).
MutateInsertRange(gene_count) == GenRange(0, gene_count - 1)

MutateInsertPanics(gene_count) == GenRangePanics(0, gene_count - 1)

\* One pass of the loop body of mutate on `genes`, gene_count being the
\* length read before the loop: the gene sequences it can leave.
MutateOnce(genes, gene_count) ==
  {InsertAt(RemoveAt(genes, i), j, g) :
     i \in GenRange(0, gene_count), j \in MutateInsertRange(gene_count), g \in Gene}

\* The loop `for _ in 0..5` of mutate.
MutateRounds == 5

RECURSIVE MutateLoop(_, _, _)
MutateLoop(S, gene_count, rounds) ==
  IF rounds = 0 THEN S
  ELSE MutateLoop(UNION {MutateOnce(genes, gene_count) : genes \in S},
                  gene_count, rounds - 1)

\* mutate panics in its first pass when one of its two ranges is empty.
MutatePanics(a) ==
  \/ GenRangePanics(0, Len(a.genes))
  \/ MutateInsertPanics(Len(a.genes))

\* Every Agent that a completed mutate can leave in place of `a`.
MutateOutcomes(a) ==
  {Rehashed(a, genes) : genes \in MutateLoop({a.genes}, Len(a.genes), MutateRounds)}

\* has_same_genes: hash equality only.
HasSameGenes(a, b) == a.hash = b.hash

\* crossover_some_genes: gene_count is the shorter of the two lengths.
CrossoverGeneCount(self_len, other_len) ==
  IF self_len > other_len THEN other_len ELSE self_len

\* A crossover point of self that is not shifted.
SelfCrossoverPointUnshifted(c, self_len, other_len) == c

\* The crossover point of self, shifted when self is the longer parent.
SelfCrossoverPoint(c, self_len, other_len) ==
  IF self_len > other_len THEN c + (self_len - other_len) ELSE c

\* The crossover point of other, shifted when other is the longer parent.
OtherCrossoverPoint(c, self_len, other_len) ==
  IF self_len > other_len THEN c
  ELSE IF other_len > self_len THEN c + (other_len - self_len) ELSE c

\* crossover_some_genes panics when gen_range(0, gene_count) has an empty range.
CrossoverPanics(a, b) ==
  GenRangePanics(0, CrossoverGeneCount(Len(a.genes), Len(b.genes)))

\* self.genes.truncate(p) then append of other's genes after drain(..q).
Splice(self_genes, p, other_genes, q) ==
  SubSeq(self_genes, 1, Min2(p, Len(self_genes)))
    \o SubSeq(other_genes, q + 1, Len(other_genes))

\* Every Agent that crossover_some_genes(other) can leave in place of self.
CrossoverOutcomes(a, b) ==
  {Rehashed(a, Splice(a.genes, SelfCrossoverPoint(c, Len(a.genes), Len(b.genes)),
                      b.genes, OtherCrossoverPoint(c, Len(a.genes), Len(b.genes)))) :
     c \in GenRange(0, CrossoverGeneCount(Len(a.genes), Len(b.genes)))}

\* mate(parent1, parent2): a clone of parent1 crossed with parent2.
MateOutcomes(parent1, parent2) == CrossoverOutcomes(parent1, parent2)

\* -------------------------------------------------------------- Population
\* Rank keys explored by direct insert / remove / cull calls are 0 .. MaxKey.
MaxKey == 2
\* Genome length of the agents handed to a Population by direct calls.
PopGenes == 2

\* Population::new_empty(unique).  agents is the BTreeMap (a function on its
\* key set), register the HashSet of genome hashes.
NewEmpty(unique) ==
  [agents |-> <<>>, register |-> {}, unique_agents |-> unique]

\* Population::len
PopLen(p) == Cardinality(DOMAIN p.agents)

\* Population::contains_score
ContainsScore(p, score) == score \in DOMAIN p.agents

\* Population::will_accept
WillAccept(p, a) ==
  IF p.unique_agents THEN a.hash \notin p.register ELSE TRUE

\* BTreeMap::insert: the entry at `score` is set, replacing one already there.
MapInsert(m, score, a) ==
  [k \in DOMAIN m \cup {score} |-> IF k = score THEN a ELSE m[k]]

\* The map restricted to the keys in K.
MapRestrict(m, K) == [k \in K |-> m[k]]

\* An insert that does not look the hash up in the register.
PopInsertUnchecked(p, score, a) ==
  [p EXCEPT !.agents = MapInsert(p.agents, score, a),
            !.register = IF p.unique_agents THEN p.register \cup {a.hash}
                                            ELSE p.register]

\* Population::insert
PopInsert(p, score, a) ==
  IF p.unique_agents /\ a.hash \in p.register
    THEN p
    ELSE [p EXCEPT !.agents = MapInsert(p.agents, score, a),
                   !.register = IF p.unique_agents
                                  THEN p.register \cup {a.hash}
                                  ELSE p.register]

\* A remove that forgets the register.
PopRemoveKeepsHash(p, score) ==
  IF score \in DOMAIN p.agents
    THEN [p EXCEPT !.agents = MapRestrict(p.agents, DOMAIN p.agents \ {score})]
    ELSE p

\* Population::remove: the Population it leaves.
PopRemove(p, score) ==
  IF score \in DOMAIN p.agents
    THEN [p EXCEPT !.agents = MapRestrict(p.agents, DOMAIN p.agents \ {score}),
                   !.register = IF p.unique_agents
                                  THEN p.register \ {p.agents[score].hash}
                                  ELSE p.register]
    ELSE p

\* A cull that leaves the register as it was.
RebuildRegisterSkipped(p) == p

\* The register rebuilt from the retained entries (both cull calls).
RebuildRegister(p) ==
  IF p.unique_agents
    THEN [p EXCEPT !.register = {p.agents[k].hash : k \in DOMAIN p.agents}]
    ELSE p

\* Population::cull_all_below: agents = agents.split_off(&score), the
\* entries with key >= score.
CullAllBelow(p, score) ==
  RebuildRegister(
    [p EXCEPT !.agents = MapRestrict(p.agents, {k \in DOMAIN p.agents : k >= score})])

\* A cull_all_above that also keeps the entry at `score`.
CullAllAboveInclusive(p, score) ==
  RebuildRegister(
    [p EXCEPT !.agents = MapRestrict(p.agents, {k \in DOMAIN p.agents : k <= score})])

\* Population::cull_all_above: agents.split_off(&score) leaves in agents the
\* entries with key < score.
CullAllAbove(p, score) ==
  RebuildRegister(
    [p EXCEPT !.agents = MapRestrict(p.agents, {k \in DOMAIN p.agents : k < score})])

\* The largest and the smallest element of a non-empty set of integers.
SetMax(S) == CHOOSE x \in S : \A y \in S : y <= x

SetMin(S) == CHOOSE x \in S : \A y \in S : x <= y

\* Population::get_scores: the keys in ascending order.
RECURSIVE SortedSeq(_)
SortedSeq(S) ==
  IF S = {} THEN <<>> ELSE <<SetMin(S)>> \o SortedSeq(S \ {SetMin(S)})

GetScores(p) == SortedSeq(DOMAIN p.agents)

\* The agents a direct caller hands to insert.
PopAgents == AgentNew(PopGenes)

\* No operation yet on the Population.
NoOp ==
  [op |-> "none", key |-> 0, hash |-> 0, before |-> NewEmpty(FALSE), removed |-> 0]

\* ----------------------------------------------------------- ScoreProvider
\* The jitter bound handed to the ScoreProvider (25 in Manager::new and in
\* the tests), scaled down.
Offset == 1

RECURSIVE SumGenes(_)
SumGenes(genes) ==
  IF genes = <<>> THEN 0 ELSE Head(genes) + SumGenes(Tail(genes))

\* The genomes on which the host's fallible fitness function returns Err.
FailingGenome(genes) ==
  /\ Len(genes) >= 2
  /\ genes[1] = MaxGene
  /\ genes[2] = 0

\* The host's fitness function, fn(&Agent, &Data) -> Result<Score, ScoreError>:
\* the sum of the genes; in mode "fallible" it fails on some genomes.
Fitness(mode, a) ==
  IF mode = "fallible" /\ FailingGenome(a.genes)
    THEN [ok |-> FALSE, score |-> 0]
    ELSE [ok |-> TRUE, score |-> SumGenes(a.genes)]

FitnessModes == {"sum", "fallible"}

\* GeneralScoreProvider::new
NewScoreProvider(offset) == [offset |-> offset, score_cache |-> <<>>]

\* An offset_cached_score that adds the jitter bound instead of taking it off.
OffsetCachedScoreRaised(sp, hash, offset) ==
  sp.score_cache[hash] + offset + sp.offset

\* offset_cached_score: the cached fitness plus the drawn offset, less the
\* jitter bound, clamped at 0.
OffsetCachedScore(sp, hash, offset) ==
  LET score == sp.score_cache[hash] + offset
  IN IF score <= sp.offset THEN 0 ELSE score - sp.offset

\* get_score panics when gen_range(0, offset * 2) has an empty range, and
\* when the fitness function fails on a genome that is not cached (unwrap).
GetScorePanics(mode, sp, a) ==
  \/ GenRangePanics(0, sp.offset * 2)
  \/ a.hash \notin DOMAIN sp.score_cache /\ ~Fitness(mode, a).ok

\* The provider after a get_score that returns: a miss caches the fitness.
GetScoreProvider(mode, sp, a) ==
  IF a.hash \in DOMAIN sp.score_cache
    THEN sp
    ELSE [sp EXCEPT !.score_cache =
            [h \in DOMAIN sp.score_cache \cup {a.hash} |->
               IF h = a.hash THEN Fitness(mode, a).score ELSE sp.score_cache[h]]]

\* The rank keys a get_score that returns can give.
GetScoreValues(mode, sp, a) ==
  {OffsetCachedScore(GetScoreProvider(mode, sp, a), a.hash, offset) :
     offset \in GenRange(0, sp.offset * 2)}

\* A get_score that calls the scoring function on a cached genome too.
GetScoreAlwaysInvokes(sp, a) == TRUE

\* Whether get_score calls the scoring function: only on a cache miss.
GetScoreInvokes(sp, a) == a.hash \notin DOMAIN sp.score_cache

\* An evaluate_scores step that keeps an agent whose evaluation failed.
EvaluateOneKeepsFailed(mode, st, a) ==
  IF a.hash \in DOMAIN st.sp.score_cache
    THEN [st EXCEPT !.cached = Append(@, a)]
    ELSE [st EXCEPT !.invoked[a.hash] = @ + 1,
                    !.sp = IF Fitness(mode, a).ok
                             THEN GetScoreProvider(mode, st.sp, a) ELSE @,
                    !.cached = Append(@, a)]

\* evaluate_scores on one agent, from st = [sp, invoked, cached]: a cached
\* genome is kept without a call; otherwise the scoring function is called,
\* an Ok is cached and the agent kept, an Err skips the agent.  invoked
\* counts the calls of the scoring function per genome hash.
EvaluateOne(mode, st, a) ==
  IF a.hash \in DOMAIN st.sp.score_cache
    THEN [st EXCEPT !.cached = Append(@, a)]
    ELSE LET called == [st EXCEPT !.invoked[a.hash] = @ + 1]
         IN IF Fitness(mode, a).ok
              THEN [called EXCEPT !.sp = GetScoreProvider(mode, st.sp, a),
                                  !.cached = Append(@, a)]
              ELSE called

\* evaluate_scores(agents, data): the loop over the agents.
RECURSIVE EvaluateScores(_, _, _)
EvaluateScores(mode, st, agents) ==
  IF agents = <<>> THEN st
  ELSE EvaluateScores(mode, EvaluateOne(mode, st, Head(agents)), Tail(agents))

\* The ScoreProvider of operations.rs (isize scores, an infallible scoring
\* function): get_score returns the fitness plus gen_range(-offset, offset),
\* and panics when that range is empty.
LegacyGetScorePanics(sp) == GenRangePanics(0 - sp.offset, sp.offset)

LegacyGetScoreValues(sp, a) ==
  {(IF a.hash \in DOMAIN sp.score_cache THEN sp.score_cache[a.hash]
    ELSE Fitness("sum", a).score) + offset :
     offset \in GenRange(0 - sp.offset, sp.offset)}

\* -------------------------------------------------------- Population::new
\* The loop of Population::new on a drawn score: decrement while the key is
\* occupied, stop at 0.
\* A loop that steps down once and stops.
DecrementOnce(p, score) ==
  IF score = 0 THEN 0
  ELSE IF ContainsScore(p, score) THEN score - 1
  ELSE score

RECURSIVE DecrementToFree(_, _)
DecrementToFree(p, score) ==
  IF score = 0 THEN 0
  ELSE IF ContainsScore(p, score) THEN DecrementToFree(p, score - 1)
  ELSE score

\* One pass of the loop `for _ in 0..start_size` from st = [pop, sp, panicked]:
\* every state it can leave.
NewPass(mode, st, number_of_genes) ==
  IF st.panicked THEN {st}
  ELSE UNION {
    IF ~WillAccept(st.pop, a) THEN {st}
    ELSE IF GetScorePanics(mode, st.sp, a) THEN {[st EXCEPT !.panicked = TRUE]}
    ELSE {[pop |-> PopInsert(st.pop, DecrementToFree(st.pop, score), a),
           sp |-> GetScoreProvider(mode, st.sp, a),
           panicked |-> FALSE] : score \in GetScoreValues(mode, st.sp, a)}
    : a \in AgentNew(number_of_genes)}

RECURSIVE NewLoop(_, _, _, _)
NewLoop(mode, S, number_of_genes, passes) ==
  IF passes = 0 THEN S
  ELSE NewLoop(mode, UNION {NewPass(mode, st, number_of_genes) : st \in S},
               number_of_genes, passes - 1)

\* Population::new(start_size, number_of_genes, unique, data, score_provider):
\* every [pop, sp, panicked] it can end with; sp is the provider it leaves.
PopulationNew(mode, start_size, number_of_genes, unique, sp) ==
  NewLoop(mode, {[pop |-> NewEmpty(unique), sp |-> sp, panicked |-> FALSE]},
          number_of_genes, start_size)

\* The start_size values explored for Population::new are 0 .. MaxStartSize.
MaxStartSize == 3

\* ---------------------------------------------------- Selection, Operation
\* A proportion is an f64.  An f64 that is not negative is modelled as
\* [mant, exp], the value mant * 2^exp, with mant a natural number of at most
\* F64Digits bits written as a sequence of limbs, least significant first.
LimbBits == 13
LimbBase == 2 ^ LimbBits

\* The limbs of l * n + carry.
RECURSIVE LimbMul(_, _, _)
LimbMul(l, n, carry) ==
  IF l = <<>> THEN (IF carry = 0 THEN <<>> ELSE <<carry>>)
  ELSE <<(Head(l) * n + carry) % LimbBase>>
         \o LimbMul(Tail(l), n, (Head(l) * n + carry) \div LimbBase)

\* The limbs of l + 1.
RECURSIVE LimbInc(_)
LimbInc(l) ==
  IF l = <<>> THEN <<1>>
  ELSE IF Head(l) + 1 < LimbBase THEN <<Head(l) + 1>> \o Tail(l)
  ELSE <<0>> \o LimbInc(Tail(l))

\* The number of bits of l, whose last limb is not 0.
BitLen(l) ==
  IF l = <<>> THEN 0
  ELSE LimbBits * (Len(l) - 1)
         + Cardinality({i \in 0 .. LimbBits - 1 : 2 ^ i <= l[Len(l)]})

\* Bit i of l, bit 0 the least significant.
Bit(l, i) ==
  IF i \div LimbBits + 1 > Len(l) THEN 0
  ELSE (l[i \div LimbBits + 1] \div 2 ^ (i % LimbBits)) % 2

\* The limbs of l \div 2^s.
ShiftRight(l, s) ==
  LET limb(j) == IF j > Len(l) THEN 0 ELSE l[j]
      r == s % LimbBits
      left == BitLen(l) - s
  IN IF left <= 0 THEN <<>>
     ELSE [j \in 1 .. (left + LimbBits - 1) \div LimbBits |->
             limb(s \div LimbBits + j) \div 2 ^ r
               + (limb(s \div LimbBits + j + 1) % 2 ^ r) * 2 ^ (LimbBits - r)]

\* The number a count-sized limb sequence stands for.
NatOfLimbs(l) ==
  IF l = <<>> THEN 0 ELSE IF Len(l) = 1 THEN l[1] ELSE l[1] + LimbBase * l[2]

\* The significand of an f64 has 53 bits.
F64Digits == 53

\* The f64 nearest to l * 2^exp (plus a nonzero remainder below the last bit
\* when sticky): round to nearest, ties to even.
F64Round(l, exp, sticky) ==
  LET cut == BitLen(l) - F64Digits
      kept == ShiftRight(l, cut)
      half == Bit(l, cut - 1) = 1
      below == sticky \/ \E i \in 0 .. cut - 2 : Bit(l, i) = 1
      up == half /\ (below \/ Bit(l, cut) = 1)
  IN IF cut <= 0 THEN [mant |-> l, exp |-> exp]
     ELSE [mant |-> IF up THEN LimbInc(kept) ELSE kept, exp |-> exp + cut]

\* The first n limbs of the binary expansion of r / den (r < den), most
\* significant first, and the remainder left after them.
RECURSIVE FractionLimbs(_, _, _)
FractionLimbs(r, den, n) ==
  IF n = 0 THEN [digits |-> <<>>, r |-> r]
  ELSE LET rest == FractionLimbs((r * LimbBase) % den, den, n - 1)
       IN [digits |-> <<(r * LimbBase) \div den>> \o rest.digits, r |-> rest.r]

Reverse(s) == [i \in 1 .. Len(s) |-> s[Len(s) + 1 - i]]

\* The fraction limbs kept of a literal before it is rounded.
LitLimbs == 6

\* The f64 a decimal literal denotes: the one nearest to num / den.
F64Lit(num, den) ==
  LET e == FractionLimbs(num % den, den, LitLimbs)
      low == Reverse(e.digits)
      all == IF num \div den = 0 THEN low ELSE low \o <<num \div den>>
      top == CHOOSE n \in 0 .. Len(all) :
               /\ \A i \in n + 1 .. Len(all) : all[i] = 0
               /\ n = 0 \/ all[n] # 0
  IN F64Round(SubSeq(all, 1, top), 0 - LimbBits * LitLimbs, e.r # 0)

\* `1.0 - f` for an f64 f in (0, 1]: the exact difference, rounded to an f64.
\* With n = -f.exp, 2^n - mant is the complement of mant on n bits, plus 1.
F64OneMinus(f) ==
  LET n == 0 - f.exp
      limb(j) == IF j > Len(f.mant) THEN 0 ELSE f.mant[j]
      width(j) == IF j * LimbBits <= n THEN LimbBits ELSE n - (j - 1) * LimbBits
      complement == [j \in 1 .. (n + LimbBits - 1) \div LimbBits |->
                       2 ^ width(j) - 1 - limb(j)]
      all == LimbInc(complement)
      diff == IF Bit(all, n) = 1 THEN <<>> ELSE all
      top == CHOOSE k \in 0 .. Len(diff) :
               /\ \A i \in k + 1 .. Len(diff) : diff[i] = 0
               /\ k = 0 \/ diff[k] # 0
  IN F64Round(SubSeq(diff, 1, top), f.exp, FALSE)

\* `population as f64 * rate`: the exact product, rounded to an f64.
F64MulNat(population, rate) ==
  IF population = 0 THEN [mant |-> <<>>, exp |-> 0]
  ELSE F64Round(LimbMul(rate.mant, population, 0), rate.exp, FALSE)

\* `as usize`: the fraction is dropped.
F64ToUsize(f) ==
  IF f.exp >= 0 THEN NatOfLimbs(f.mant) * 2 ^ f.exp
  ELSE NatOfLimbs(ShiftRight(f.mant, 0 - f.exp))

\* The proportion written num / den as a decimal literal in the source.
Rate(num, den) == F64Lit(num, den)

\* rate_to_number: (population as f64 * rate) as usize, kept at or above
\* preferred_minimum unless the population is smaller than that.
RateToNumber(population, rate, preferred_minimum) ==
  IF population < preferred_minimum THEN population
  ELSE LET number == F64ToUsize(F64MulNat(population, rate))
       IN IF number < preferred_minimum THEN preferred_minimum ELSE number

\* Selection::with_values
Selection(selection_type, proportion, preferred_minimum) ==
  [selection_type |-> selection_type, proportion |-> proportion,
   preferred_minimum |-> preferred_minimum]

\* Selection::new: preferred_minimum is 1.
SelectionNew(selection_type, proportion) == Selection(selection_type, proportion, 1)

\* Operation::new: one thread.
OperationNew(operation_type, selection) ==
  [operation_type |-> operation_type, selection |-> selection, threads |-> 1]

\* Selection::count
SelectionCount(sel, p) == RateToNumber(PopLen(p), sel.proportion, sel.preferred_minimum)

\* get_random_subset: `number` keys drawn with replacement; every key set it
\* can return.
RandomSubsets(p, number) ==
  IF number = 0 THEN {{}}
  ELSE {K \in SUBSET DOMAIN p.agents : K # {} /\ Cardinality(K) <= number}

\* A get_highest_scored_agents that drains one key fewer.
HighestKeysDrainShort(p, number) ==
  LET keys == GetScores(p)
  IN {keys[i] : i \in (IF number = Len(keys) THEN 1 ELSE Len(keys) - number) .. Len(keys)}

\* get_highest_scored_agents: the keys left by keys.drain(0..(len - number)).
HighestKeys(p, number) ==
  LET keys == GetScores(p)
  IN {keys[i] : i \in (Len(keys) - number + 1) .. Len(keys)}

\* get_lowest_scored_agents: the keys left by keys.truncate(number).
LowestKeys(p, number) ==
  LET keys == GetScores(p)
  IN {keys[i] : i \in 1 .. Min2(number, Len(keys))}

\* Selection::agents: every key set the selection can return.
SelectionAgents(sel, p) ==
  LET number == SelectionCount(sel, p)
  IN CASE sel.selection_type = "RandomAny" -> RandomSubsets(p, number)
       [] sel.selection_type = "HighestScore" -> {HighestKeys(p, number)}
       [] sel.selection_type = "LowestScore" -> {LowestKeys(p, number)}

\* A grouping that stops after one item per group.
ArrangeFirstRound(items, threads) ==
  [g \in 1 .. threads |-> IF g <= Len(items) THEN <<items[g]>> ELSE <<>>]

\* arrange_agents_into_groups / arrange_pairs_into_groups: item number c
\* (from 0) goes to group c % threads.
ArrangeIntoGroups(items, threads) ==
  [g \in 1 .. threads |->
     LET idx == {i \in 1 .. Len(items) : (i - 1) % threads = g - 1}
         pick == SortedSeq(idx)
     IN [j \in 1 .. Len(pick) |-> items[pick[j]]]]

\* The groups one after the other, the order in which they are processed.
RECURSIVE Flatten(_)
Flatten(groups) ==
  IF groups = <<>> THEN <<>> ELSE Head(groups) \o Flatten(Tail(groups))

\* The children of a list of items, one after the other, from the states in
\* S = a set of [sp, children, panicked]; Step(x, item) is the set of states
\* one item can leave.  get_mutated_agents: mutate, then get_score.
MutatedChild(mode, x, a) ==
  IF x.panicked THEN {x}
  ELSE IF MutatePanics(a) THEN {[x EXCEPT !.panicked = TRUE]}
  ELSE UNION {
    IF GetScorePanics(mode, x.sp, m) THEN {[x EXCEPT !.panicked = TRUE]}
    ELSE {[sp |-> GetScoreProvider(mode, x.sp, m),
           children |-> Append(x.children, <<score, m>>),
           panicked |-> FALSE] : score \in GetScoreValues(mode, x.sp, m)}
    : m \in MutateOutcomes(a)}

RECURSIVE GetMutatedAgents(_, _, _)
GetMutatedAgents(mode, S, agents) ==
  IF agents = <<>> THEN S
  ELSE GetMutatedAgents(mode, UNION {MutatedChild(mode, x, Head(agents)) : x \in S},
                        Tail(agents))

\* create_children_from_crossover: mate, then get_score.
CrossoverChild(mode, x, pair) ==
  IF x.panicked THEN {x}
  ELSE IF CrossoverPanics(pair[1], pair[2]) THEN {[x EXCEPT !.panicked = TRUE]}
  ELSE UNION {
    IF GetScorePanics(mode, x.sp, child) THEN {[x EXCEPT !.panicked = TRUE]}
    ELSE {[sp |-> GetScoreProvider(mode, x.sp, child),
           children |-> Append(x.children, <<score, child>>),
           panicked |-> FALSE] : score \in GetScoreValues(mode, x.sp, child)}
    : child \in MateOutcomes(pair[1], pair[2])}

RECURSIVE CreateChildrenFromCrossover(_, _, _)
CreateChildrenFromCrossover(mode, S, pairs) ==
  IF pairs = <<>> THEN S
  ELSE CreateChildrenFromCrossover(
         mode, UNION {CrossoverChild(mode, x, Head(pairs)) : x \in S}, Tail(pairs))

\* `for (score_index, agent) in children { population.insert(..) }`
RECURSIVE InsertAll(_, _)
InsertAll(p, children) ==
  IF children = <<>> THEN p
  ELSE InsertAll(PopInsert(p, Head(children)[1], Head(children)[2]), Tail(children))

\* The state [pop, sp, panicked] left when the children in x are inserted.
WithChildren(st, x) ==
  IF x.panicked THEN [st EXCEPT !.panicked = TRUE, !.sp = x.sp]
  ELSE [pop |-> InsertAll(st.pop, x.children), sp |-> x.sp, panicked |-> FALSE]

\* mutate_agents: every state it can leave from st = [pop, sp, panicked].
\* The selected agents are cloned into the groups before any child is made,
\* so the children of all groups are those of the groups' concatenation.
MutateAgents(mode, st, sel, threads) ==
  UNION {
    LET keys == SortedSeq(K)
        agents == [i \in 1 .. Len(keys) |-> st.pop.agents[keys[i]]]
        order == Flatten(ArrangeIntoGroups(agents, threads))
    IN {WithChildren(st, x) :
          x \in GetMutatedAgents(
                  mode, {[sp |-> st.sp, children |-> <<>>, panicked |-> FALSE]}, order)}
    : K \in SelectionAgents(sel, st.pop)}

\* create_random_pairs: one draw of two keys per selected agent; a pair of
\* agents with the same hash is dropped.  Every pair list it can return.
RECURSIVE PairLists(_, _)
PairLists(candidates, draws) ==
  IF draws = 0 THEN {<<>>}
  ELSE LET shorter == PairLists(candidates, draws - 1)
       IN shorter \cup {Append(l, c) : l \in {s \in shorter : Len(s) = draws - 1},
                                       c \in candidates}

\* A create_random_pairs that keeps the pairs of agents with the same hash.
CreateRandomPairsUnfiltered(p, K) ==
  PairLists({<<p.agents[k1], p.agents[k2]>> : k1 \in K, k2 \in K}, Cardinality(K))

CreateRandomPairs(p, K) ==
  PairLists({<<p.agents[k1], p.agents[k2]>> : k1 \in K, k2 \in K}
              \ {pr \in {<<p.agents[k1], p.agents[k2]>> : k1 \in K, k2 \in K} :
                   HasSameGenes(pr[1], pr[2])},
            Cardinality(K))

\* crossover_agents
CrossoverAgents(mode, st, sel, threads) ==
  UNION {
    UNION {
      LET order == Flatten(ArrangeIntoGroups(pairs, threads))
      IN {WithChildren(st, x) :
            x \in CreateChildrenFromCrossover(
                    mode, {[sp |-> st.sp, children |-> <<>>, panicked |-> FALSE]}, order)}
      : pairs \in CreateRandomPairs(st.pop, K)}
    : K \in SelectionAgents(sel, st.pop)}

\* cull_agents: the state it leaves; RandomAny panics once the early return
\* is passed.
CullAgents(st, sel) ==
  LET keys == GetScores(st.pop)
      cull_number == SelectionCount(sel, st.pop)
  IN IF cull_number >= Len(keys) THEN st
     ELSE CASE sel.selection_type = "LowestScore" ->
                 [st EXCEPT !.pop = CullAllBelow(st.pop, keys[cull_number + 1])]
            [] sel.selection_type = "HighestScore" ->
                 [st EXCEPT !.pop = CullAllAbove(st.pop, keys[cull_number + 1])]
            [] sel.selection_type = "RandomAny" ->
                 [st EXCEPT !.panicked = TRUE]

\* `let cull_proportion = 1.0 - 1.0 / sub_populations_per_level as f64`
CullProportion(sub_populations_per_level) ==
  F64OneMinus(F64Lit(1, sub_populations_per_level))

\* cull_lowest_agents
CullLowestAgents(p, rate, preferred_minimum) ==
  LET keys == GetScores(p)
      cull_number == RateToNumber(Len(keys), rate, preferred_minimum)
  IN IF cull_number >= Len(keys) THEN p
     ELSE CullAllBelow(p, keys[cull_number + 1])

\* Operation::run: every state the operation can leave.
OperationRun(mode, st, op) ==
  IF st.panicked THEN {st}
  ELSE CASE op.operation_type = "Mutate" -> MutateAgents(mode, st, op.selection, op.threads)
         [] op.operation_type = "Crossover" ->
              CrossoverAgents(mode, st, op.selection, op.threads)
         [] op.operation_type = "Cull" -> {CullAgents(st, op.selection)}

\* A run_iterations that walks the operation list from its end.
OperationAtReversed(operations, done) ==
  operations[Len(operations) - (done % Len(operations))]

\* The operation that the nested loops of run_iterations run after `done`
\* operation runs, and whether the loops are over.
OperationAt(operations, done) == operations[(done % Len(operations)) + 1]

RunIterationsDone(iterations, operations, done) ==
  done = iterations * Len(operations)

\* One iteration of run_iterations: the operations in list order.
RECURSIVE RunPipeline(_, _, _)
RunPipeline(mode, S, operations) ==
  IF operations = <<>> THEN S
  ELSE RunPipeline(mode, UNION {OperationRun(mode, st, Head(operations)) : st \in S},
                   Tail(operations))

\* run_iterations
RECURSIVE RunIterations(_, _, _, _)
RunIterations(mode, S, iterations, operations) ==
  IF iterations = 0 THEN S
  ELSE RunIterations(mode, RunPipeline(mode, S, operations), iterations - 1, operations)

\* ----------------------------------------------------------------- Manager
\* Manager::new sets number_of_genes 10, initial_population_size 100,
\* iterations_per_cycle 100 and max_child_threads 3; the setters replace
\* them.  The values the model runs with:
NumberOfGenes == 2
InitialPopulationSize == 1
IterationsPerCycle == 1
MaxChildThreads == 1
\* The goals handed to run are 0 and MaxGoal; a behaviour makes at most
\* MaxRuns calls of run, each of at most MaxCycles passes of its loop.
MaxGoal == 2
MaxRuns == 2
MaxCycles == 2

Goals == 0 .. MaxGoal

\* The operation pipeline of Manager::new.
DefaultOperations ==
  <<OperationNew("Mutate", SelectionNew("RandomAny", Rate(1, 10))),
    OperationNew("Crossover", SelectionNew("HighestScore", Rate(2, 10))),
    OperationNew("Crossover", SelectionNew("RandomAny", Rate(2, 10))),
    OperationNew("Cull", SelectionNew("LowestScore", Rate(1, 10)))>>

\* The pipeline the host hands to set_operations before it calls run.
ManagerOperations ==
  <<OperationNew("Mutate", SelectionNew("RandomAny", Rate(1, 10))),
    OperationNew("Cull", SelectionNew("LowestScore", Rate(1, 10)))>>

\* `while self.current_highest <= goal`: the loop entered on equality.
LoopContinuesOnEqual(highest, goal_) == highest <= goal_

\* `while self.current_highest < goal`
LoopContinues(highest, goal_) == highest < goal_

\* A top-up that spawns on equality: one worker above the budget.
NeedsWorkerOnEqual(number, max) == number <= max

\* `if self.number_of_child_threads < self.max_child_threads` and the bound
\* of the spawning loop: one more worker is spawned.
NeedsWorker(number, max) == number < max

\* A drain that leaves the counter as it is.
ChildThreadsAfterDrainKept(number) == {[panicked |-> FALSE, value |-> number]}

\* `self.number_of_child_threads -= 1` on a u8: at 0 the subtraction
\* overflows, which panics in a build with overflow checks and wraps to 255
\* in one without.
ChildThreadsAfterDrain(number) ==
  IF number = 0 THEN {[panicked |-> TRUE, value |-> 0], [panicked |-> FALSE, value |-> 255]}
  ELSE {[panicked |-> FALSE, value |-> number - 1]}

\* The entries of a snapshot in the order the drain loop inserts them.
SnapshotEntries(snapshot) ==
  LET keys == SortedSeq(DOMAIN snapshot)
  IN [i \in 1 .. Len(keys) |-> <<keys[i], snapshot[keys[i]]>>]

\* The closure of spawn_population_in_new_thread, run on the provider clone
\* `sp`: Population::new, run_iterations, cull_lowest_agents(.., 0.5, 1); what
\* it has to send, unless it panicked on the way.
WorkerOutcomes(mode, sp) ==
  {[panicked |-> st.panicked,
    sp |-> st.sp,
    snapshot |-> IF st.panicked THEN <<>>
                 ELSE CullLowestAgents(st.pop, Rate(1, 2), 1).agents] :
     st \in RunIterations(
              mode,
              PopulationNew(mode, InitialPopulationSize, NumberOfGenes, FALSE, sp),
              IterationsPerCycle, ManagerOperations)}

\* tx.send(..) returns Err once the Receiver, a field of the Manager, has
\* been dropped.
SendFails(pc) == pc = "dropped"

\* A closure that unwraps the result of the send.
WorkerEndUnwrapsSend(send_ok) == IF send_ok THEN "exited" ELSE "panicked"

\* `match tx.send(..) { Ok(()) => (), Err(_) => () }`: how the closure ends.
WorkerEnd(send_ok) == "exited"

\* A worker that scores on the Manager's provider instead of a clone.
ProviderSharedWithWorker(manager_sp, worker_sp) == worker_sp

\* The Manager's own provider after a worker has run: the worker scored on
\* the clone that was moved into its closure.
ProviderAfterWorker(manager_sp, worker_sp) == manager_sp

\* ------------------------------------------------------------------- state
VARIABLES
  mode,                     \* the host's fitness function: "sum" or "fallible"
  main_population,          \* Manager.main_population
  score_provider,           \* Manager.score_provider
  current_highest,          \* Manager.current_highest
  number_of_child_threads,  \* Manager.number_of_child_threads
  max_child_threads,        \* Manager.max_child_threads
  channel,                  \* the snapshots sent and not yet received
  workers,                  \* the spawned threads, in spawn order: [pc, sp, sent]
  mgr_pc,                   \* where the manager thread is
  goal,                     \* the argument of the current run call
  runs,                     \* run calls made so far
  cycles,                   \* passes of the loop of the current run call
  run_spawned,              \* workers spawned by the current run call
  budget_high,              \* the largest max_child_threads a run call started with
  new_args,   \* the arguments of a Population::new call, with the fitness mode
  new_out,    \* what the call left: [pop, sp, panicked]
  new_pc,     \* "call", "returned" or "panicked"
  pop,        \* a Population driven by direct insert / remove / cull calls
  pop_op,     \* the last call on pop: its name, arguments and the Population before
  copies,     \* <<>>, or <<k, B, A>>: clones of pop after cull_all_below(k), cull_all_above(k)
  agent,      \* the Agent under a single-agent operation
  agent0,     \* the Agent as it was before the operation
  agent_other, \* the second parent of a crossover
  agent_pc,   \* "fresh", "mutated", "crossed", "mated", or the panic that ended the call
  call_args,  \* the arguments of a call of one function, with the function's name
  call_out,   \* what the call returned or left
  call_pc     \* "call", "returned" or "panicked"

agent_vars == <<agent, agent0, agent_other, agent_pc>>

pop_vars == <<pop, pop_op, copies>>

new_vars == <<new_args, new_out, new_pc>>

call_vars == <<call_args, call_out, call_pc>>

mgr_vars == <<mode, main_population, score_provider, current_highest,
              number_of_child_threads, max_child_threads, channel, workers,
              mgr_pc, goal, runs, cycles, run_spawned, budget_high>>

vars == <<agent, agent0, agent_other, agent_pc, pop, pop_op, copies,
          new_args, new_out, new_pc,
          mode, main_population, score_provider, current_highest,
          number_of_child_threads, max_child_threads, channel, workers,
          mgr_pc, goal, runs, cycles, run_spawned, budget_high,
          call_args, call_out, call_pc>>

\* Manager::new
ManagerNew ==
  /\ main_population = NewEmpty(FALSE)
  /\ score_provider = NewScoreProvider(Offset)
  /\ current_highest = 0
  /\ number_of_child_threads = 0
  /\ max_child_threads = MaxChildThreads
  /\ channel = <<>>
  /\ workers = <<>>
  /\ mgr_pc = "idle"
  /\ goal = 0
  /\ runs = 0
  /\ cycles = 0
  /\ run_spawned = 0
  /\ budget_high = 0

MgrIdle ==
  /\ mode = "sum"
  /\ ManagerNew

NewIdle ==
  /\ new_args = [mode |-> "sum", start_size |-> 0, number_of_genes |-> 0, unique |-> FALSE]
  /\ new_out = [pop |-> NewEmpty(FALSE), sp |-> NewScoreProvider(Offset), panicked |-> FALSE]
  /\ new_pc = "call"

\* The components a specification does not drive stay as constructed.
AgentIdle ==
  /\ agent = AgentOf(<<>>)
  /\ agent0 = agent
  /\ agent_other = agent
  /\ agent_pc = "fresh"

CallIdle ==
  /\ call_args = <<>>
  /\ call_out = <<>>
  /\ call_pc = "idle"

PopIdle ==
  /\ pop = NewEmpty(FALSE)
  /\ pop_op = NoOp
  /\ copies = <<>>

\* ------------------------------------------------------- single-agent runs
AgentInit ==
  /\ agent \in UNION {AgentNew(n) : n \in 0 .. MaxLen}
  /\ agent0 = agent
  /\ agent_other \in UNION {AgentNew(n) : n \in 0 .. MaxLen}
  /\ agent_pc = "fresh"
  /\ PopIdle
  /\ NewIdle
  /\ MgrIdle
  /\ CallIdle

\* agent.mutate() returns.
Mutate ==
  /\ agent_pc = "fresh"
  /\ ~MutatePanics(agent)
  /\ agent' \in MutateOutcomes(agent)
  /\ agent_pc' = "mutated"
  /\ UNCHANGED <<agent0, agent_other, pop_vars, new_vars, mgr_vars, call_vars>>

\* agent.mutate() panics: gen_range was called on an empty range.
MutatePanic ==
  /\ agent_pc = "fresh"
  /\ MutatePanics(agent)
  /\ agent_pc' = "panicked"
  /\ UNCHANGED <<agent, agent0, agent_other, pop_vars, new_vars, mgr_vars, call_vars>>

\* agent.crossover_some_genes(&agent_other) returns.
CrossoverSomeGenes ==
  /\ agent_pc = "fresh"
  /\ ~CrossoverPanics(agent, agent_other)
  /\ agent' \in CrossoverOutcomes(agent, agent_other)
  /\ agent_pc' = "crossed"
  /\ UNCHANGED <<agent0, agent_other, pop_vars, new_vars, mgr_vars, call_vars>>

\* agent.crossover_some_genes(&agent_other) panics: one parent has no genes.
CrossoverPanic ==
  /\ agent_pc = "fresh"
  /\ CrossoverPanics(agent, agent_other)
  /\ agent_pc' = "crossover_panicked"
  /\ UNCHANGED <<agent, agent0, agent_other, pop_vars, new_vars, mgr_vars, call_vars>>

\* mate(&agent0, &agent_other) returns: `agent` is the child, the parents
\* are left as they are.
Mate ==
  /\ agent_pc = "fresh"
  /\ ~CrossoverPanics(agent0, agent_other)
  /\ agent' \in MateOutcomes(agent0, agent_other)
  /\ agent_pc' = "mated"
  /\ UNCHANGED <<agent0, agent_other, pop_vars, new_vars, mgr_vars, call_vars>>

\* mate(&agent0, &agent_other) panics in crossover_some_genes.
MatePanic ==
  /\ agent_pc = "fresh"
  /\ CrossoverPanics(agent0, agent_other)
  /\ agent_pc' = "mate_panicked"
  /\ UNCHANGED <<agent, agent0, agent_other, pop_vars, new_vars, mgr_vars, call_vars>>

AgentNext ==
  \/ Mutate
  \/ MutatePanic
  \/ CrossoverSomeGenes
  \/ CrossoverPanic
  \/ Mate
  \/ MatePanic

SpecAgent == AgentInit /\ [][AgentNext]_vars

\* --------------------------------------------- direct calls on a Population
PopInit ==
  /\ pop \in {NewEmpty(TRUE), NewEmpty(FALSE)}
  /\ pop_op = NoOp
  /\ copies = <<>>
  /\ AgentIdle
  /\ NewIdle
  /\ MgrIdle
  /\ CallIdle

\* The hash of the agent that the call just made removed, 0 when that call
\* was not a remove of an occupied key.
JustRemoved ==
  IF pop_op.op = "remove" /\ pop_op.key \in DOMAIN pop_op.before.agents
    THEN pop_op.before.agents[pop_op.key].hash
    ELSE 0

\* population.insert(score, a)
Insert ==
  \E score \in 0 .. MaxKey, a \in PopAgents :
    /\ pop' = PopInsert(pop, score, a)
    /\ pop_op' = [op |-> "insert", key |-> score, hash |-> a.hash,
                  before |-> pop, removed |-> JustRemoved]
    /\ copies' = <<>>
    /\ UNCHANGED <<agent_vars, new_vars, mgr_vars, call_vars>>

\* population.remove(score)
Remove ==
  \E score \in 0 .. MaxKey :
    /\ pop' = PopRemove(pop, score)
    /\ pop_op' = [op |-> "remove", key |-> score, hash |-> 0,
                  before |-> pop, removed |-> 0]
    /\ copies' = <<>>
    /\ UNCHANGED <<agent_vars, new_vars, mgr_vars, call_vars>>

\* population.cull_all_below(score)
CullBelow ==
  \E score \in 0 .. MaxKey + 1 :
    /\ pop' = CullAllBelow(pop, score)
    /\ pop_op' = [op |-> "cull_all_below", key |-> score, hash |-> 0,
                  before |-> pop, removed |-> 0]
    /\ copies' = <<>>
    /\ UNCHANGED <<agent_vars, new_vars, mgr_vars, call_vars>>

\* population.cull_all_above(score)
CullAbove ==
  \E score \in 0 .. MaxKey + 1 :
    /\ pop' = CullAllAbove(pop, score)
    /\ pop_op' = [op |-> "cull_all_above", key |-> score, hash |-> 0,
                  before |-> pop, removed |-> 0]
    /\ copies' = <<>>
    /\ UNCHANGED <<agent_vars, new_vars, mgr_vars, call_vars>>

\* Two clones of pop: cull_all_below(score) on one, cull_all_above(score) on
\* the other.  pop itself is left alone.
CullCopies ==
  \E score \in 0 .. MaxKey + 1 :
    /\ copies' = <<score, CullAllBelow(pop, score), CullAllAbove(pop, score)>>
    /\ pop_op' = [op |-> "clone", key |-> score, hash |-> 0,
                  before |-> pop, removed |-> 0]
    /\ UNCHANGED <<pop, agent_vars, new_vars, mgr_vars, call_vars>>

PopNext == Insert \/ Remove \/ CullBelow \/ CullAbove \/ CullCopies

SpecPop == PopInit /\ [][PopNext]_vars

\* ------------------------------------------------- calls of Population::new
NewInit ==
  /\ new_args \in [mode : FitnessModes, start_size : 0 .. MaxStartSize,
                    number_of_genes : 1 .. PopGenes, unique : BOOLEAN]
  /\ new_out = [pop |-> NewEmpty(new_args.unique), sp |-> NewScoreProvider(Offset),
                panicked |-> FALSE]
  /\ new_pc = "call"
  /\ AgentIdle
  /\ PopIdle
  /\ MgrIdle
  /\ CallIdle

\* Population::new(start_size, number_of_genes, unique, &data, &mut provider)
\* with a fresh provider, as in the tests; it returns or panics.
NewCall ==
  /\ new_pc = "call"
  /\ new_out' \in PopulationNew(new_args.mode, new_args.start_size,
                                 new_args.number_of_genes, new_args.unique, new_out.sp)
  /\ new_pc' = IF new_out'.panicked THEN "panicked" ELSE "returned"
  /\ UNCHANGED <<new_args, agent_vars, pop_vars, mgr_vars, call_vars>>

NewNext == NewCall

SpecNew == NewInit /\ [][NewNext]_vars

\* ----------------------------------------------------- the Manager at work
MgrInit ==
  /\ mode \in FitnessModes
  /\ ManagerNew
  /\ AgentIdle
  /\ PopIdle
  /\ NewIdle
  /\ CallIdle

other_vars == <<agent_vars, pop_vars, new_vars, call_vars>>

\* manager.set_max_child_threads(n), between run calls (it needs &mut self).
SetMaxChildThreads ==
  /\ mgr_pc \in {"idle", "returned"}
  /\ \E n \in 0 .. MaxChildThreads :
    /\ n # max_child_threads
    /\ max_child_threads' = n
    /\ UNCHANGED <<mode, main_population, score_provider, current_highest,
                   number_of_child_threads, channel, workers, mgr_pc, goal, runs,
                   cycles, run_spawned, budget_high, other_vars>>

\* manager.run(g), first statement: the main Population is seeded anew with
\* the Manager's provider; the seeding returns or panics.
Run ==
  /\ mgr_pc \in {"idle", "returned"}
  /\ runs < MaxRuns
  /\ \E g \in Goals :
    \E st \in PopulationNew(mode, InitialPopulationSize, NumberOfGenes, FALSE,
                            score_provider) :
      /\ goal' = g
      /\ runs' = runs + 1
      /\ cycles' = 0
      /\ run_spawned' = 0
      /\ budget_high' = IF max_child_threads > budget_high THEN max_child_threads
                                                             ELSE budget_high
      /\ score_provider' = st.sp
      /\ main_population' = IF st.panicked THEN main_population ELSE st.pop
      /\ mgr_pc' = IF st.panicked THEN "panicked_seed" ELSE "check"
      /\ UNCHANGED <<mode, current_highest, number_of_child_threads,
                     max_child_threads, channel, workers, other_vars>>

\* The loop condition holds: the body starts with the top-up.
EnterLoop ==
  /\ mgr_pc = "check"
  /\ LoopContinues(current_highest, goal)
  /\ cycles < MaxCycles
  /\ mgr_pc' = "topup"
  /\ UNCHANGED <<mode, main_population, score_provider, current_highest,
                 number_of_child_threads, max_child_threads, channel, workers,
                 goal, runs, cycles, run_spawned, budget_high, other_vars>>

\* The loop condition fails: run returns.
Return ==
  /\ mgr_pc = "check"
  /\ ~LoopContinues(current_highest, goal)
  /\ mgr_pc' = "returned"
  /\ UNCHANGED <<mode, main_population, score_provider, current_highest,
                 number_of_child_threads, max_child_threads, channel, workers,
                 goal, runs, cycles, run_spawned, budget_high, other_vars>>

\* spawn_population_in_new_thread: a thread is started on clones of the
\* data, the operations and the provider, and the counter goes up.
Spawn ==
  /\ mgr_pc = "topup"
  /\ NeedsWorker(number_of_child_threads, max_child_threads)
  /\ workers' = Append(workers, [pc |-> "running", sp |-> score_provider, sent |-> 0,
                               send_failed |-> FALSE])
  /\ number_of_child_threads' = number_of_child_threads + 1
  /\ run_spawned' = run_spawned + 1
  /\ UNCHANGED <<mode, main_population, score_provider, current_highest,
                 max_child_threads, channel, mgr_pc, goal, runs, cycles,
                 budget_high, other_vars>>

\* The pool is full: run_iterations on a clone of the main Population with
\* the Manager's provider; it returns or panics.
Evolve ==
  /\ mgr_pc = "topup"
  /\ ~NeedsWorker(number_of_child_threads, max_child_threads)
  /\ \E st \in RunIterations(
              mode,
              {[pop |-> main_population, sp |-> score_provider, panicked |-> FALSE]},
              IterationsPerCycle, ManagerOperations) :
    /\ score_provider' = st.sp
    /\ main_population' = IF st.panicked THEN main_population ELSE st.pop
    /\ mgr_pc' = IF st.panicked THEN "panicked_evolve" ELSE "drain"
    /\ UNCHANGED <<mode, current_highest, number_of_child_threads,
                   max_child_threads, channel, workers, goal, runs, cycles,
                   run_spawned, budget_high, other_vars>>

\* try_recv returns a snapshot: its entries are inserted and the counter
\* goes down.
DrainOne ==
  /\ mgr_pc = "drain"
  /\ channel # <<>>
  /\ \E dec \in ChildThreadsAfterDrain(number_of_child_threads) :
    /\ channel' = Tail(channel)
    /\ main_population' = InsertAll(main_population, SnapshotEntries(Head(channel)))
    /\ number_of_child_threads' = dec.value
    /\ mgr_pc' = IF dec.panicked THEN "panicked_underflow" ELSE "drain"
    /\ UNCHANGED <<mode, score_provider, current_highest, max_child_threads,
                   workers, goal, runs, cycles, run_spawned, budget_high, other_vars>>

\* A drain on a blocking recv: it would end only once no worker is left that
\* could still send.
DrainEndsWhenNoSender(channel_, workers_) ==
  /\ channel_ = <<>>
  /\ \A i \in 1 .. Len(workers_) : workers_[i].pc # "running"

\* `try_recv()` is not Ok: the channel holds no snapshot right now, whatever
\* the worker threads are doing.
DrainEnds(channel_, workers_) == channel_ = <<>>

\* try_recv finds the channel empty: the best rank is read off the main
\* Population (unwrap of its last entry) and the pass ends.
Recompute ==
  /\ mgr_pc = "drain"
  /\ DrainEnds(channel, workers)
  /\ IF PopLen(main_population) = 0
       THEN /\ mgr_pc' = "panicked_recompute"
            /\ UNCHANGED current_highest
       ELSE /\ mgr_pc' = "check"
            /\ current_highest' = SetMax(DOMAIN main_population.agents)
  /\ cycles' = cycles + 1
  /\ UNCHANGED <<mode, main_population, score_provider, number_of_child_threads,
                 max_child_threads, channel, workers, goal, runs, run_spawned,
                 budget_high, other_vars>>

\* The host drops the Manager between run calls, and its Receiver with it;
\* the worker threads are detached and run on.
Drop ==
  /\ mgr_pc \in {"idle", "returned"}
  /\ mgr_pc' = "dropped"
  /\ UNCHANGED <<mode, main_population, score_provider, current_highest,
                 number_of_child_threads, max_child_threads, channel, workers,
                 goal, runs, cycles, run_spawned, budget_high, other_vars>>

\* A worker thread runs its closure to the end: it sends its snapshot and
\* exits, or it panics before sending; a send that fails is ignored.  Its
\* provider dies with it.
WorkerRun ==
  \E i \in 1 .. Len(workers) :
    /\ workers[i].pc = "running"
    /\ \E out \in WorkerOutcomes(mode, workers[i].sp) :
      /\ workers' = [workers EXCEPT
                       ![i] = [pc |-> IF out.panicked THEN "panicked"
                                      ELSE WorkerEnd(~SendFails(mgr_pc)),
                               sp |-> NewScoreProvider(Offset),
                               sent |-> IF out.panicked \/ SendFails(mgr_pc) THEN 0 ELSE 1,
                               send_failed |-> ~out.panicked /\ SendFails(mgr_pc)]]
      /\ channel' = IF out.panicked \/ SendFails(mgr_pc) THEN channel
                    ELSE Append(channel, out.snapshot)
      /\ score_provider' = ProviderAfterWorker(score_provider, out.sp)
      /\ UNCHANGED <<mode, main_population, current_highest, number_of_child_threads,
                     max_child_threads, mgr_pc, goal, runs, cycles, run_spawned,
                     budget_high, other_vars>>

MgrNext ==
  \/ SetMaxChildThreads
  \/ Run
  \/ EnterLoop
  \/ Return
  \/ Spawn
  \/ Evolve
  \/ DrainOne
  \/ Recompute
  \/ Drop
  \/ WorkerRun

SpecMgr == MgrInit /\ [][MgrNext]_vars

\* ------------------------------------------------- calls of rate_to_number
\* The populations handed to rate_to_number are 0 .. MaxRatePopulation, the
\* proportions the two-place decimal literals 0.00 .. 1.00, the preferred
\* minimums those of the tests and the 1 of Selection::new.
MaxRatePopulation == 100

RateLiterals == {<<n, 100>> : n \in 0 .. 100}

PreferredMinimums == {0, 1, 5, 8}

RateInit ==
  /\ call_args \in [fn : {"rate_to_number"}, population : 0 .. MaxRatePopulation,
                    rate : RateLiterals, preferred_minimum : PreferredMinimums]
  /\ call_out = <<>>
  /\ call_pc = "call"
  /\ AgentIdle
  /\ PopIdle
  /\ NewIdle
  /\ MgrIdle

\* rate_to_number(population, rate, preferred_minimum) returns.
RateToNumberCall ==
  /\ call_pc = "call"
  /\ call_args.fn = "rate_to_number"
  /\ call_out' = RateToNumber(call_args.population,
                              Rate(call_args.rate[1], call_args.rate[2]),
                              call_args.preferred_minimum)
  /\ call_pc' = "returned"
  /\ UNCHANGED <<call_args, agent_vars, pop_vars, new_vars, mgr_vars>>

RateNext == RateToNumberCall

SpecRate == RateInit /\ [][RateNext]_vars

\* ----------------------------------------------- calls of Selection::agents
\* The Populations handed to Selection::agents hold single-gene agents keyed
\* by their gene value, as in the tests of operations.rs; the keys are any
\* subset of 0 .. MaxSelKey.
MaxSelKey == 7

SelectionTypes == {"RandomAny", "HighestScore", "LowestScore"}

\* The proportions and preferred minimums of the selections explored.
SelRates == {<<0, 100>>, <<25, 100>>, <<50, 100>>, <<100, 100>>}

SelMinimums == {0, 1}

\* The Population of the call.
SelPopulation(keys) ==
  [agents |-> [k \in keys |-> AgentOf(<<k>>)], register |-> {}, unique_agents |-> FALSE]

SelInit ==
  /\ call_args \in [fn : {"agents"}, keys : SUBSET (0 .. MaxSelKey),
                    selection_type : SelectionTypes, rate : SelRates,
                    preferred_minimum : SelMinimums]
  /\ call_out = <<>>
  /\ call_pc = "call"
  /\ AgentIdle
  /\ PopIdle
  /\ NewIdle
  /\ MgrIdle

\* selection.agents(&population) returns; call_out is the key set of the
\* map it returns.
SelectionAgentsCall ==
  /\ call_pc = "call"
  /\ call_args.fn = "agents"
  /\ call_out' \in SelectionAgents(
                     Selection(call_args.selection_type,
                               Rate(call_args.rate[1], call_args.rate[2]),
                               call_args.preferred_minimum),
                     SelPopulation(call_args.keys))
  /\ call_pc' = "returned"
  /\ UNCHANGED <<call_args, agent_vars, pop_vars, new_vars, mgr_vars>>

SelNext == SelectionAgentsCall

SpecSel == SelInit /\ [][SelNext]_vars

\* -------------------------------------------------- calls of run_iterations
\* run_iterations is handed a Population built by Population::new with a
\* start size of 0 .. MaxRunStartSize and the provider that call left, one
\* of the operation lists below, and 0 .. MaxIterations iterations.
MaxRunStartSize == 2
MaxIterations == 2

OperationLists ==
  {<<>>,
   <<OperationNew("Mutate", SelectionNew("RandomAny", Rate(1, 10)))>>,
   ManagerOperations,
   <<OperationNew("Cull", SelectionNew("LowestScore", Rate(1, 10))),
     OperationNew("Crossover", SelectionNew("HighestScore", Rate(1, 1)))>>,
   <<OperationNew("Cull", SelectionNew("RandomAny", Rate(1, 2)))>>}

\* The [pop, sp, panicked] states a call can start from.
RunStarts(m) ==
  UNION {{st \in PopulationNew(m, n, NumberOfGenes, FALSE, NewScoreProvider(Offset)) :
            ~st.panicked} : n \in 0 .. MaxRunStartSize}

RunInit ==
  /\ \E m \in FitnessModes :
       call_args \in [fn : {"run_iterations"}, mode : {m}, st : RunStarts(m),
                      iterations : 0 .. MaxIterations, operations : OperationLists]
  /\ call_out = [st |-> call_args.st, done |-> 0, trace |-> <<>>]
  /\ call_pc = "call"
  /\ AgentIdle
  /\ PopIdle
  /\ NewIdle
  /\ MgrIdle

\* One `population = operation.run(population, data, score_provider)`.
RunOperation ==
  /\ call_pc = "call"
  /\ call_args.fn = "run_iterations"
  /\ ~RunIterationsDone(call_args.iterations, call_args.operations, call_out.done)
  /\ LET op == OperationAt(call_args.operations, call_out.done)
     IN \E st \in OperationRun(call_args.mode, call_out.st, op) :
          /\ ~st.panicked
          /\ call_out' = [st |-> st, done |-> call_out.done + 1,
                          trace |-> Append(call_out.trace,
                                           [op |-> op, before |-> call_out.st.pop,
                                            after |-> st.pop])]
  /\ UNCHANGED <<call_args, call_pc, agent_vars, pop_vars, new_vars, mgr_vars>>

\* operation.run panics: the call does not return.
RunOperationPanic ==
  /\ call_pc = "call"
  /\ call_args.fn = "run_iterations"
  /\ ~RunIterationsDone(call_args.iterations, call_args.operations, call_out.done)
  /\ \E st \in OperationRun(call_args.mode, call_out.st,
                            OperationAt(call_args.operations, call_out.done)) :
       st.panicked
  /\ call_pc' = "panicked"
  /\ UNCHANGED <<call_args, call_out, agent_vars, pop_vars, new_vars, mgr_vars>>

\* The loops are over: run_iterations returns the population.
RunIterationsReturn ==
  /\ call_pc = "call"
  /\ call_args.fn = "run_iterations"
  /\ RunIterationsDone(call_args.iterations, call_args.operations, call_out.done)
  /\ call_pc' = "returned"
  /\ UNCHANGED <<call_args, call_out, agent_vars, pop_vars, new_vars, mgr_vars>>

RunNext ==
  \/ RunOperation
  \/ RunOperationPanic
  \/ RunIterationsReturn

SpecRun == RunInit /\ [][RunNext]_vars

\* ------------------------------------------------ calls on a ScoreProvider
\* One provider, built with a jitter bound of 0 .. MaxJitter, takes at most
\* MaxScoreCalls calls of get_score and evaluate_scores on agents of
\* NumberOfGenes genes; evaluate_scores is handed 1 .. MaxEvaluated agents.
MaxJitter == 2
MaxScoreCalls == 3
MaxEvaluated == 2

ScoredAgents == AgentNew(NumberOfGenes)

\* The provider kinds and the fitness functions they take: the
\* GeneralScoreProvider of fitness.rs with a fallible FitnessFunction, the
\* ScoreProvider of operations.rs with a ScoreFunction that cannot fail.
ProviderKinds ==
  {[provider |-> "general", mode |-> m] : m \in FitnessModes}
    \cup {[provider |-> "legacy", mode |-> "sum"]}

AgentLists ==
  UNION {[1 .. n -> ScoredAgents] : n \in 1 .. MaxEvaluated}

ScoreInit ==
  /\ \E k \in ProviderKinds, j \in 0 .. MaxJitter :
       call_args = [fn |-> "score_provider", provider |-> k.provider,
                    mode |-> k.mode, offset |-> j]
  /\ call_out = [sp |-> NewScoreProvider(call_args.offset),
                 invoked |-> [h \in {a.hash : a \in ScoredAgents} |-> 0],
                 calls |-> 0,
                 last |-> [op |-> "new", agents |-> <<>>, score |-> 0,
                           cached |-> <<>>, before |-> <<>>]]
  /\ call_pc = "call"
  /\ AgentIdle
  /\ PopIdle
  /\ NewIdle
  /\ MgrIdle

\* What a call leaves in call_out.
AfterScoreCall(op, sp, invoked, agents, score, cached) ==
  [sp |-> sp, invoked |-> invoked, calls |-> call_out.calls + 1,
   last |-> [op |-> op, agents |-> agents, score |-> score, cached |-> cached,
             before |-> call_out.sp.score_cache]]

\* provider.get_score(&agent, &data, &mut rng) returns.
GetScore ==
  /\ call_pc = "call"
  /\ call_args.fn = "score_provider"
  /\ call_args.provider = "general"
  /\ call_out.calls < MaxScoreCalls
  /\ \E a \in ScoredAgents :
       /\ ~GetScorePanics(call_args.mode, call_out.sp, a)
       /\ \E score \in GetScoreValues(call_args.mode, call_out.sp, a) :
            call_out' = AfterScoreCall(
                          "get_score", GetScoreProvider(call_args.mode, call_out.sp, a),
                          IF GetScoreInvokes(call_out.sp, a)
                            THEN [call_out.invoked EXCEPT ![a.hash] = @ + 1]
                            ELSE call_out.invoked,
                          <<a>>, score, <<>>)
  /\ UNCHANGED <<call_args, call_pc, agent_vars, pop_vars, new_vars, mgr_vars>>

\* provider.get_score panics: on the empty range of the offset draw, which
\* comes first, or on the unwrap of the scoring function's Err.
GetScorePanic ==
  /\ call_pc = "call"
  /\ call_args.fn = "score_provider"
  /\ call_args.provider = "general"
  /\ call_out.calls < MaxScoreCalls
  /\ \E a \in ScoredAgents :
       /\ GetScorePanics(call_args.mode, call_out.sp, a)
       /\ call_out' = AfterScoreCall(
                        "get_score", call_out.sp,
                        IF ~GenRangePanics(0, call_out.sp.offset * 2)
                             /\ GetScoreInvokes(call_out.sp, a)
                          THEN [call_out.invoked EXCEPT ![a.hash] = @ + 1]
                          ELSE call_out.invoked,
                        <<a>>, 0, <<>>)
  /\ call_pc' = "panicked"
  /\ UNCHANGED <<call_args, agent_vars, pop_vars, new_vars, mgr_vars>>

\* provider.evaluate_scores(agents, &data) returns the agents it kept.
EvaluateScoresCall ==
  /\ call_pc = "call"
  /\ call_args.fn = "score_provider"
  /\ call_args.provider = "general"
  /\ call_out.calls < MaxScoreCalls
  /\ \E agents \in AgentLists :
       LET st == EvaluateScores(call_args.mode,
                                [sp |-> call_out.sp, invoked |-> call_out.invoked,
                                 cached |-> <<>>],
                                agents)
       IN call_out' = AfterScoreCall("evaluate_scores", st.sp, st.invoked,
                                     agents, 0, st.cached)
  /\ UNCHANGED <<call_args, call_pc, agent_vars, pop_vars, new_vars, mgr_vars>>

\* get_score of the ScoreProvider of operations.rs returns.
LegacyGetScore ==
  /\ call_pc = "call"
  /\ call_args.fn = "score_provider"
  /\ call_args.provider = "legacy"
  /\ call_out.calls < MaxScoreCalls
  /\ ~LegacyGetScorePanics(call_out.sp)
  /\ \E a \in ScoredAgents :
       \E score \in LegacyGetScoreValues(call_out.sp, a) :
         call_out' = AfterScoreCall(
                       "get_score", GetScoreProvider("sum", call_out.sp, a),
                       IF GetScoreInvokes(call_out.sp, a)
                         THEN [call_out.invoked EXCEPT ![a.hash] = @ + 1]
                         ELSE call_out.invoked,
                       <<a>>, score, <<>>)
  /\ UNCHANGED <<call_args, call_pc, agent_vars, pop_vars, new_vars, mgr_vars>>

\* get_score of the ScoreProvider of operations.rs panics on the offset draw.
LegacyGetScorePanic ==
  /\ call_pc = "call"
  /\ call_args.fn = "score_provider"
  /\ call_args.provider = "legacy"
  /\ call_out.calls < MaxScoreCalls
  /\ LegacyGetScorePanics(call_out.sp)
  /\ \E a \in ScoredAgents :
       call_out' = AfterScoreCall("get_score", call_out.sp, call_out.invoked,
                                  <<a>>, 0, <<>>)
  /\ call_pc' = "panicked"
  /\ UNCHANGED <<call_args, agent_vars, pop_vars, new_vars, mgr_vars>>

ScoreNext ==
  \/ GetScore
  \/ GetScorePanic
  \/ EvaluateScoresCall
  \/ LegacyGetScore
  \/ LegacyGetScorePanic

SpecScore == ScoreInit /\ [][ScoreNext]_vars

\* ------------------------- calls of population_from_multilevel_sub_populations
\* levels is 0 .. MaxLevels and sub_populations_per_level 1 .. MaxSubPopulations.
\* A Population of the Vec is written as the set of the seed populations
\* (numbered in push order) whose agents were inserted into it.
MaxLevels == 3
MaxSubPopulations == 3

\* A merge loop that makes one new population too many per level.
NumberOfNewPopulationsPlusOne(sub_populations_per_level, level) ==
  sub_populations_per_level ^ level + 1

\* `sub_populations_per_level.pow(levels)`, the number of seed populations.
NumberOfInitialPopulations(sub_populations_per_level, levels) ==
  sub_populations_per_level ^ levels

\* `sub_populations_per_level.pow(level)`, the merges of one level.
NumberOfNewPopulations(sub_populations_per_level, level) ==
  sub_populations_per_level ^ level

MultilevelInit ==
  /\ call_args \in [fn : {"multilevel"}, levels : 0 .. MaxLevels,
                    sub_populations_per_level : 1 .. MaxSubPopulations]
  /\ call_out = [populations |-> <<>>, new_populations |-> <<>>,
                 phase |-> "seeding", level |-> call_args.levels,
                 population |-> {}, taken |-> 0, merges |-> <<>>, result |-> {}]
  /\ call_pc = "call"
  /\ AgentIdle
  /\ PopIdle
  /\ NewIdle
  /\ MgrIdle

\* One pass of the seeding loop: push run_iterations(Population::new(..)).
SeedPopulation ==
  /\ call_pc = "call"
  /\ call_args.fn = "multilevel"
  /\ call_out.phase = "seeding"
  /\ Len(call_out.populations)
       < NumberOfInitialPopulations(call_args.sub_populations_per_level, call_args.levels)
  /\ call_out' = [call_out EXCEPT
                    !.populations = Append(@, {Len(call_out.populations) + 1})]
  /\ UNCHANGED <<call_args, call_pc, agent_vars, pop_vars, new_vars, mgr_vars>>

\* The seeding loop is over, or `populations = new_populations` was done:
\* the next pass of `for level in (0..levels).rev()`, or its end.
BeginLevel ==
  /\ call_pc = "call"
  /\ call_args.fn = "multilevel"
  /\ \/ /\ call_out.phase = "seeding"
        /\ Len(call_out.populations)
             = NumberOfInitialPopulations(call_args.sub_populations_per_level,
                                          call_args.levels)
     \/ call_out.phase = "level_done"
  /\ call_out' = IF call_out.level = 0
                   THEN [call_out EXCEPT !.phase = "levels_done"]
                   ELSE [call_out EXCEPT !.phase = "level", !.level = @ - 1,
                                         !.new_populations = <<>>]
  /\ UNCHANGED <<call_args, call_pc, agent_vars, pop_vars, new_vars, mgr_vars>>

\* One pass of `for _ in 0..number_of_new_populations` starts with
\* Population::new_empty(false).
BeginMerge ==
  /\ call_pc = "call"
  /\ call_args.fn = "multilevel"
  /\ call_out.phase = "level"
  /\ Len(call_out.new_populations)
       < NumberOfNewPopulations(call_args.sub_populations_per_level, call_out.level)
  /\ call_out' = [call_out EXCEPT !.phase = "merge", !.population = {}, !.taken = 0]
  /\ UNCHANGED <<call_args, call_pc, agent_vars, pop_vars, new_vars, mgr_vars>>

\* `populations.pop().unwrap()` and the inserts of its agents; the unwrap
\* panics on an empty Vec.
TakePopulation ==
  /\ call_pc = "call"
  /\ call_args.fn = "multilevel"
  /\ call_out.phase = "merge"
  /\ call_out.taken < call_args.sub_populations_per_level
  /\ IF call_out.populations = <<>>
       THEN /\ call_pc' = "panicked"
            /\ UNCHANGED call_out
       ELSE /\ call_out' =
                 [call_out EXCEPT
                    !.populations = SubSeq(@, 1, Len(@) - 1),
                    !.population =
                       @ \cup call_out.populations[Len(call_out.populations)],
                    !.taken = @ + 1]
            /\ UNCHANGED call_pc
  /\ UNCHANGED <<call_args, agent_vars, pop_vars, new_vars, mgr_vars>>

\* new_populations.push(cull_lowest_agents(run_iterations(population, ..), ..))
EndMerge ==
  /\ call_pc = "call"
  /\ call_args.fn = "multilevel"
  /\ call_out.phase = "merge"
  /\ call_out.taken = call_args.sub_populations_per_level
  /\ call_out' = [call_out EXCEPT
                    !.phase = "level",
                    !.new_populations = Append(@, call_out.population),
                    !.merges = Append(@, [level |-> call_out.level,
                                          taken |-> call_out.taken])]
  /\ UNCHANGED <<call_args, call_pc, agent_vars, pop_vars, new_vars, mgr_vars>>

\* `populations = new_populations`: what was left in populations is dropped.
EndLevel ==
  /\ call_pc = "call"
  /\ call_args.fn = "multilevel"
  /\ call_out.phase = "level"
  /\ Len(call_out.new_populations)
       = NumberOfNewPopulations(call_args.sub_populations_per_level, call_out.level)
  /\ call_out' = [call_out EXCEPT !.phase = "level_done",
                                  !.populations = call_out.new_populations]
  /\ UNCHANGED <<call_args, call_pc, agent_vars, pop_vars, new_vars, mgr_vars>>

\* `populations.pop().unwrap()`, the value returned.
MultilevelReturn ==
  /\ call_pc = "call"
  /\ call_args.fn = "multilevel"
  /\ call_out.phase = "levels_done"
  /\ IF call_out.populations = <<>>
       THEN /\ call_pc' = "panicked"
            /\ UNCHANGED call_out
       ELSE /\ call_pc' = "returned"
            /\ call_out' = [call_out EXCEPT
                              !.result = call_out.populations[Len(call_out.populations)],
                              !.populations = SubSeq(@, 1, Len(@) - 1)]
  /\ UNCHANGED <<call_args, agent_vars, pop_vars, new_vars, mgr_vars>>

MultilevelNext ==
  \/ SeedPopulation
  \/ BeginLevel
  \/ BeginMerge
  \/ TakePopulation
  \/ EndMerge
  \/ EndLevel
  \/ MultilevelReturn

SpecMultilevel == MultilevelInit /\ [][MultilevelNext]_vars

\* ------------------------------------------------------ calls of cull_agents
\* cull_agents is handed a Population of single-gene agents under the keys
\* of a subset of 0 .. MaxSelKey and a Selection of any type, one of
\* SelRates and a preferred minimum of SelMinimums.
CullInit ==
  /\ call_args \in [fn : {"cull_agents"}, keys : SUBSET (0 .. MaxSelKey),
                    selection_type : SelectionTypes, rate : SelRates,
                    preferred_minimum : SelMinimums]
  /\ call_out = <<>>
  /\ call_pc = "call"
  /\ AgentIdle
  /\ PopIdle
  /\ NewIdle
  /\ MgrIdle

\* cull_agents(population, selection) returns the Population, or panics on
\* RandomAny; call_out is the Population it returns.
CullAgentsCall ==
  /\ call_pc = "call"
  /\ call_args.fn = "cull_agents"
  /\ LET st == CullAgents(
                 [pop |-> SelPopulation(call_args.keys),
                  sp |-> NewScoreProvider(Offset), panicked |-> FALSE],
                 Selection(call_args.selection_type,
                           Rate(call_args.rate[1], call_args.rate[2]),
                           call_args.preferred_minimum))
     IN /\ call_out' = st.pop
        /\ call_pc' = IF st.panicked THEN "panicked" ELSE "returned"
  /\ UNCHANGED <<call_args, agent_vars, pop_vars, new_vars, mgr_vars>>

CullNext == CullAgentsCall

SpecCull == CullInit /\ [][CullNext]_vars

\* ------------------------------------------------- calls of crossover_agents
\* crossover_agents is handed a Population with keys out of 0 .. MaxCrossKey,
\* each holding any Agent of NumberOfGenes genes (so that two keys can hold
\* the same genome), a fresh provider, and a Selection of any type with one
\* of CrossRates and the preferred minimum of Selection::new; one thread.
MaxCrossKey == 2

CrossRates == {<<50, 100>>, <<100, 100>>}

CrossPopulations ==
  UNION {{[agents |-> f, register |-> {}, unique_agents |-> FALSE] :
            f \in [K -> AgentNew(NumberOfGenes)]} : K \in SUBSET (0 .. MaxCrossKey)}

CrossSelection ==
  Selection(call_args.selection_type, Rate(call_args.rate[1], call_args.rate[2]),
            call_args.preferred_minimum)

CrossInit ==
  /\ call_args \in [fn : {"crossover_agents"}, mode : FitnessModes,
                    pop : CrossPopulations, selection_type : SelectionTypes,
                    rate : CrossRates, preferred_minimum : {1}]
  /\ call_out = [phase |-> "select", selected |-> {}, pairs |-> <<>>,
                 children |-> <<>>,
                 st |-> [pop |-> call_args.pop, sp |-> NewScoreProvider(Offset),
                         panicked |-> FALSE]]
  /\ call_pc = "call"
  /\ AgentIdle
  /\ PopIdle
  /\ NewIdle
  /\ MgrIdle

\* selection.agents(&population)
CrossSelect ==
  /\ call_pc = "call"
  /\ call_args.fn = "crossover_agents"
  /\ call_out.phase = "select"
  /\ \E K \in SelectionAgents(CrossSelection, call_args.pop) :
       call_out' = [call_out EXCEPT !.phase = "pair", !.selected = K]
  /\ UNCHANGED <<call_args, call_pc, agent_vars, pop_vars, new_vars, mgr_vars>>

\* create_random_pairs(..)
CrossPair ==
  /\ call_pc = "call"
  /\ call_args.fn = "crossover_agents"
  /\ call_out.phase = "pair"
  /\ \E pairs \in CreateRandomPairs(call_args.pop, call_out.selected) :
       call_out' = [call_out EXCEPT !.phase = "breed", !.pairs = pairs]
  /\ UNCHANGED <<call_args, call_pc, agent_vars, pop_vars, new_vars, mgr_vars>>

\* The loop over the groups: the children are bred, scored and inserted,
\* or a mate or a get_score panics; then the Population is returned.
CrossBreed ==
  /\ call_pc = "call"
  /\ call_args.fn = "crossover_agents"
  /\ call_out.phase = "breed"
  /\ \E x \in CreateChildrenFromCrossover(
                call_args.mode,
                {[sp |-> call_out.st.sp, children |-> <<>>, panicked |-> FALSE]},
                Flatten(ArrangeIntoGroups(call_out.pairs, 1))) :
       /\ call_out' = [call_out EXCEPT !.phase = "done", !.children = x.children,
                                       !.st = WithChildren(call_out.st, x)]
       /\ call_pc' = IF x.panicked THEN "panicked" ELSE "returned"
  /\ UNCHANGED <<call_args, agent_vars, pop_vars, new_vars, mgr_vars>>

CrossNext ==
  \/ CrossSelect
  \/ CrossPair
  \/ CrossBreed

SpecCross == CrossInit /\ [][CrossNext]_vars

\* ------------------------------------------ the loop of Population::new
\* Population::new pass by pass, with a fresh provider: start_size is
\* 0 .. MaxNewPasses; call_out holds the state [pop, sp, panicked], the
\* number of passes made, and what the last pass did.
MaxNewPasses == 4

NewLoopInit ==
  /\ call_args \in [fn : {"population_new"}, mode : FitnessModes,
                    start_size : 0 .. MaxNewPasses,
                    number_of_genes : {NumberOfGenes}, unique : BOOLEAN]
  /\ call_out = [st |-> [pop |-> NewEmpty(call_args.unique),
                         sp |-> NewScoreProvider(Offset), panicked |-> FALSE],
                 passes |-> 0, last |-> <<>>]
  /\ call_pc = "call"
  /\ AgentIdle
  /\ PopIdle
  /\ NewIdle
  /\ MgrIdle

\* A pass whose agent is accepted and scored: the key is walked down and the
\* agent inserted.
NewPassStore ==
  /\ call_pc = "call"
  /\ call_args.fn = "population_new"
  /\ call_out.passes < call_args.start_size
  /\ \E a \in AgentNew(call_args.number_of_genes) :
       /\ WillAccept(call_out.st.pop, a)
       /\ ~GetScorePanics(call_args.mode, call_out.st.sp, a)
       /\ \E score \in GetScoreValues(call_args.mode, call_out.st.sp, a) :
            LET key == DecrementToFree(call_out.st.pop, score)
            IN call_out' =
                 [st |-> [pop |-> PopInsert(call_out.st.pop, key, a),
                          sp |-> GetScoreProvider(call_args.mode, call_out.st.sp, a),
                          panicked |-> FALSE],
                  passes |-> call_out.passes + 1,
                  last |-> [before |-> call_out.st.pop, agent |-> a,
                            score |-> score, key |-> key]]
  /\ UNCHANGED <<call_args, call_pc, agent_vars, pop_vars, new_vars, mgr_vars>>

\* A pass whose agent the Population will not accept.
NewPassSkip ==
  /\ call_pc = "call"
  /\ call_args.fn = "population_new"
  /\ call_out.passes < call_args.start_size
  /\ \E a \in AgentNew(call_args.number_of_genes) :
       ~WillAccept(call_out.st.pop, a)
  /\ call_out' = [call_out EXCEPT !.passes = call_out.passes + 1, !.last = <<>>]
  /\ UNCHANGED <<call_args, call_pc, agent_vars, pop_vars, new_vars, mgr_vars>>

\* A pass whose get_score panics.
NewPassPanic ==
  /\ call_pc = "call"
  /\ call_args.fn = "population_new"
  /\ call_out.passes < call_args.start_size
  /\ \E a \in AgentNew(call_args.number_of_genes) :
       /\ WillAccept(call_out.st.pop, a)
       /\ GetScorePanics(call_args.mode, call_out.st.sp, a)
  /\ call_out' = [call_out EXCEPT !.st.panicked = TRUE, !.last = <<>>]
  /\ call_pc' = "panicked"
  /\ UNCHANGED <<call_args, agent_vars, pop_vars, new_vars, mgr_vars>>

\* The loop is over: the population is returned.
NewLoopReturn ==
  /\ call_pc = "call"
  /\ call_args.fn = "population_new"
  /\ call_out.passes = call_args.start_size
  /\ call_pc' = "returned"
  /\ UNCHANGED <<call_args, call_out, agent_vars, pop_vars, new_vars, mgr_vars>>

NewLoopNext ==
  \/ NewPassStore
  \/ NewPassSkip
  \/ NewPassPanic
  \/ NewLoopReturn

SpecNewLoop == NewLoopInit /\ [][NewLoopNext]_vars

\* ----------------------------------------- the cull that ends a merge round
\* cull_lowest_agents(population, cull_proportion, 1) as the hierarchical
\* composer calls it: on a Population of single-gene agents under the keys
\* of a subset of 0 .. MaxSelKey, for 1 .. MaxSubPopulations sub-populations
\* per level.  call_out is [proportion, pop].
MergeCullInit ==
  /\ call_args \in [fn : {"merge_cull"}, keys : SUBSET (0 .. MaxSelKey),
                    sub_populations_per_level : 1 .. MaxSubPopulations]
  /\ call_out = <<>>
  /\ call_pc = "call"
  /\ AgentIdle
  /\ PopIdle
  /\ NewIdle
  /\ MgrIdle

MergeCullCall ==
  /\ call_pc = "call"
  /\ call_args.fn = "merge_cull"
  /\ LET cull_proportion == CullProportion(call_args.sub_populations_per_level)
     IN call_out' = [proportion |-> cull_proportion,
                     pop |-> CullLowestAgents(SelPopulation(call_args.keys),
                                              cull_proportion, 1)]
  /\ call_pc' = "returned"
  /\ UNCHANGED <<call_args, agent_vars, pop_vars, new_vars, mgr_vars>>

MergeCullNext == MergeCullCall

SpecMergeCull == MergeCullInit /\ [][MergeCullNext]_vars

\* ------------------------------------------ the threaded multilevel composer
\* threaded_population_from_multilevel_sub_populations(levels, s, ..) for
\* levels in 0 .. MaxLevels and s in 1 .. MaxSubPopulations, with counts in
\* place of Populations.  call_out is [handles, joined, phase, final_merges];
\* a handle is [pc, seeds, merges]: the thread is "running", or "done" with
\* the numbers of seed Populations and of merges it made, or "panicked", or
\* "wrapped".

\* The merges populations_from_existing_multillevel makes for `levels`
\* levels: number_of_new_populations per level, over (0..levels).rev().
RECURSIVE MergeRounds(_, _)
MergeRounds(sub_populations_per_level, levels) ==
  IF levels = 0 THEN 0
  ELSE NumberOfNewPopulations(sub_populations_per_level, levels - 1)
         + MergeRounds(sub_populations_per_level, levels - 1)

\* `levels - 1` on a u32, evaluated in the spawned thread: with levels = 0
\* it panics when overflow checks are on, and wraps to 2^32 - 1 when they
\* are off; the thread is then not followed further ("wrapped").
ThreadOutcomes(levels, sub_populations_per_level) ==
  IF levels = 0
    THEN {[pc |-> "panicked", seeds |-> 0, merges |-> 0],
          [pc |-> "wrapped", seeds |-> 0, merges |-> 0]}
    ELSE {[pc |-> "done",
           seeds |-> NumberOfInitialPopulations(sub_populations_per_level, levels - 1),
           merges |-> MergeRounds(sub_populations_per_level, levels - 1)]}

ThreadedInit ==
  /\ call_args \in [fn : {"threaded_multilevel"}, levels : 0 .. MaxLevels,
                    sub_populations_per_level : 1 .. MaxSubPopulations]
  /\ call_out = [handles |-> <<>>, joined |-> 0, phase |-> "spawning",
                 final_merges |-> 0]
  /\ call_pc = "call"
  /\ AgentIdle
  /\ PopIdle
  /\ NewIdle
  /\ MgrIdle

\* handles.push(thread::spawn(..)), one pass of the first loop.
ThreadSpawn ==
  /\ call_pc = "call"
  /\ call_args.fn = "threaded_multilevel"
  /\ call_out.phase = "spawning"
  /\ Len(call_out.handles) < call_args.sub_populations_per_level
  /\ call_out' = [call_out EXCEPT
                    !.handles = Append(@, [pc |-> "running", seeds |-> 0, merges |-> 0])]
  /\ UNCHANGED <<call_args, call_pc, agent_vars, pop_vars, new_vars, mgr_vars>>

\* A spawned thread runs population_from_multilevel_sub_populations(levels - 1, ..)
\* to its end.
ThreadRun ==
  /\ call_args.fn = "threaded_multilevel"
  /\ \E i \in 1 .. Len(call_out.handles) :
       /\ call_out.handles[i].pc = "running"
       /\ \E out \in ThreadOutcomes(call_args.levels, call_args.sub_populations_per_level) :
            call_out' = [call_out EXCEPT !.handles[i] = out]
  /\ UNCHANGED <<call_args, call_pc, agent_vars, pop_vars, new_vars, mgr_vars>>

\* The first loop is over: the second loop starts.
BeginJoin ==
  /\ call_pc = "call"
  /\ call_args.fn = "threaded_multilevel"
  /\ call_out.phase = "spawning"
  /\ Len(call_out.handles) = call_args.sub_populations_per_level
  /\ call_out' = [call_out EXCEPT !.phase = "joining"]
  /\ UNCHANGED <<call_args, call_pc, agent_vars, pop_vars, new_vars, mgr_vars>>

\* populations.push(handle.join().unwrap()): join waits for the thread to
\* end; the unwrap panics if the thread panicked.
ThreadJoin ==
  /\ call_pc = "call"
  /\ call_args.fn = "threaded_multilevel"
  /\ call_out.phase = "joining"
  /\ call_out.joined < Len(call_out.handles)
  /\ call_out.handles[call_out.joined + 1].pc \in {"done", "panicked"}
  /\ IF call_out.handles[call_out.joined + 1].pc = "panicked"
       THEN /\ call_pc' = "panicked"
            /\ UNCHANGED call_out
       ELSE /\ call_out' = [call_out EXCEPT !.joined = @ + 1]
            /\ UNCHANGED call_pc
  /\ UNCHANGED <<call_args, agent_vars, pop_vars, new_vars, mgr_vars>>

\* populations_from_existing_multillevel(populations, 1, s, ..) on the
\* joined Populations, and the return of its result.
FinalMerge ==
  /\ call_pc = "call"
  /\ call_args.fn = "threaded_multilevel"
  /\ call_out.phase = "joining"
  /\ call_out.joined = Len(call_out.handles)
  /\ call_out' = [call_out EXCEPT
                    !.phase = "merged",
                    !.final_merges = MergeRounds(call_args.sub_populations_per_level, 1)]
  /\ call_pc' = "returned"
  /\ UNCHANGED <<call_args, agent_vars, pop_vars, new_vars, mgr_vars>>

ThreadedNext ==
  \/ ThreadSpawn
  \/ ThreadRun
  \/ BeginJoin
  \/ ThreadJoin
  \/ FinalMerge

SpecThreaded == ThreadedInit /\ [][ThreadedNext]_vars

\* ------------------------------------------------- mutate_agents, threaded
\* One call of mutate_agents with a thread count of its own: the selection,
\* the split into groups, then the loop over the groups.

MaxMutKey == 2
MaxThreads == 3
MutRates == {<<50, 100>>, <<100, 100>>}

\* The Population the call is given: agents of two genes, which mutate can
\* perturb, at the keys `keys`.
MutPopulation(keys) ==
  [agents |-> [k \in keys |-> AgentOf(<<k, 0>>)], register |-> {},
   unique_agents |-> FALSE]

MutSelection ==
  Selection(call_args.selection_type, Rate(call_args.rate[1], call_args.rate[2]),
            call_args.preferred_minimum)

MutInit ==
  /\ call_args \in [fn : {"mutate_agents"}, mode : FitnessModes,
                    keys : SUBSET (0 .. MaxMutKey), selection_type : SelectionTypes,
                    rate : MutRates, preferred_minimum : {1},
                    threads : 1 .. MaxThreads]
  /\ call_out = [phase |-> "select", selected |-> <<>>, groups |-> <<>>,
                 children |-> <<>>,
                 st |-> [pop |-> MutPopulation(call_args.keys),
                         sp |-> NewScoreProvider(Offset), panicked |-> FALSE]]
  /\ call_pc = "call"
  /\ AgentIdle
  /\ PopIdle
  /\ NewIdle
  /\ MgrIdle

\* selection.agents(&population): the selected agents in key order.
MutSelect ==
  /\ call_pc = "call"
  /\ call_args.fn = "mutate_agents"
  /\ call_out.phase = "select"
  /\ \E K \in SelectionAgents(MutSelection, call_out.st.pop) :
       LET keys == SortedSeq(K)
       IN call_out' = [call_out EXCEPT
                         !.phase = "arrange",
                         !.selected = [i \in 1 .. Len(keys) |->
                                         call_out.st.pop.agents[keys[i]]]]
  /\ UNCHANGED <<call_args, call_pc, agent_vars, pop_vars, new_vars, mgr_vars>>

\* arrange_agents_into_groups(.., threads)
MutArrange ==
  /\ call_pc = "call"
  /\ call_args.fn = "mutate_agents"
  /\ call_out.phase = "arrange"
  /\ call_out' = [call_out EXCEPT
                    !.phase = "breed",
                    !.groups = ArrangeIntoGroups(call_out.selected, call_args.threads)]
  /\ UNCHANGED <<call_args, call_pc, agent_vars, pop_vars, new_vars, mgr_vars>>

\* `for agents in groups { .. }`: the children of every group are made,
\* scored and inserted, or a mutate or a get_score panics.
MutBreed ==
  /\ call_pc = "call"
  /\ call_args.fn = "mutate_agents"
  /\ call_out.phase = "breed"
  /\ \E x \in GetMutatedAgents(
                call_args.mode,
                {[sp |-> call_out.st.sp, children |-> <<>>, panicked |-> FALSE]},
                Flatten(call_out.groups)) :
       /\ call_out' = [call_out EXCEPT !.phase = "done", !.children = x.children,
                                       !.st = WithChildren(call_out.st, x)]
       /\ call_pc' = IF x.panicked THEN "panicked" ELSE "returned"
  /\ UNCHANGED <<call_args, agent_vars, pop_vars, new_vars, mgr_vars>>

MutNext ==
  \/ MutSelect
  \/ MutArrange
  \/ MutBreed

SpecMutate == MutInit /\ [][MutNext]_vars

\* -------------------------------------------------------------- properties

\* C1: in a Population with unique = true, after any sequence of insert,
\* remove, cull_all_below and cull_all_above calls, the agent map and the
\* register have the same number of entries.
C1_RegisterMatchesMap ==
  pop.unique_agents => PopLen(pop) = Cardinality(pop.register)

\* The manager thread is inside a run call.
Running == mgr_pc \in {"check", "topup", "drain"}

\* The snapshots the manager thread has taken off the channel.
Drained == Cardinality({i \in 1 .. Len(workers) : workers[i].sent = 1}) - Len(channel)

\* C2: whenever run(goal) has returned, on a first or on a later call, the
\* main Population is not empty and its largest rank key is >= goal.
C2_ReturnedMeansGoalReached ==
  mgr_pc = "returned" =>
    /\ PopLen(main_population) > 0
    /\ SetMax(DOMAIN main_population.agents) >= goal

\* C3: run(0) spawns no worker and runs no pass of the evolve loop: from the
\* seeding on it is at the loop test or has returned (and the Manager may
\* then be dropped); with a fitness function
\* that returns a score for every agent the seeding does not fail.
C3_RunZeroReturnsAfterSeeding ==
  (runs >= 1 /\ goal = 0) =>
    /\ mgr_pc \in {"check", "returned", "dropped", "panicked_seed"}
    /\ mode = "sum" => mgr_pc # "panicked_seed"
    /\ run_spawned = 0
    /\ cycles = 0

\* C3's case: a second call, run(0), has returned on a seeded Population
\* while workers of the first call are still counted.
C3_Witness ==
  /\ mgr_pc = "returned"
  /\ goal = 0
  /\ runs = 2
  /\ PopLen(main_population) >= 1
  /\ number_of_child_threads >= 1

\* C4, as stated: in every state of a run call the live-worker counter is
\* between 0 and max_child_threads.
C4_CounterWithinBudget ==
  Running =>
    /\ 0 <= number_of_child_threads
    /\ number_of_child_threads <= max_child_threads

\* C4, amended: the live-worker counter is the number of workers spawned and
\* not yet drained, it never goes below zero, and it never exceeds the
\* largest max_child_threads a run call has started with; so it stays within
\* max_child_threads as long as the budget has not been lowered between calls.
C4_CounterWithinLargestBudget ==
  /\ mgr_pc # "panicked_underflow"
  /\ number_of_child_threads = Len(workers) - Drained
  /\ 0 <= number_of_child_threads
  /\ number_of_child_threads <= budget_high
  /\ (Running /\ max_child_threads = budget_high) =>
       number_of_child_threads <= max_child_threads

\* C4's case: the pool is full again after a snapshot was drained and the
\* free slot was filled by a new worker.
C4_Witness ==
  /\ mgr_pc = "topup"
  /\ Drained >= 1
  /\ number_of_child_threads = max_child_threads
  /\ max_child_threads = MaxChildThreads
  /\ Len(workers) > MaxChildThreads

\* C5: a worker that has stopped running has sent exactly one snapshot.
C5_StoppedWorkerSentOnce ==
  \A i \in 1 .. Len(workers) :
    workers[i].pc \in {"exited", "panicked"} => workers[i].sent = 1

\* A step of a worker thread.
WorkerStep ==
  \E i \in 1 .. Len(workers) :
    workers[i].pc = "running" /\ workers'[i].pc # "running"

\* C6: a step of a worker thread leaves the main Population, the Manager's
\* ScoreProvider, the live-worker counter and the rest of the Manager's
\* fields as they are; all it can do is put one snapshot on the channel.
C6_WorkerStepLeavesManagerAlone ==
  [][WorkerStep =>
       /\ UNCHANGED <<main_population, score_provider, number_of_child_threads,
                      current_highest, max_child_threads, mgr_pc, goal>>
       /\ \/ channel' = channel
          \/ /\ Len(channel') = Len(channel) + 1
             /\ SubSeq(channel', 1, Len(channel)) = channel]_vars

\* C6's case: a worker has scored agents on its clone and sent its snapshot
\* while the manager thread is in its loop with a provider that has not
\* cached all of them.
C6_Witness ==
  /\ mgr_pc \in {"topup", "drain"}
  /\ Len(channel) >= 1
  /\ \E i \in 1 .. Len(workers) : workers[i].pc = "exited"
  /\ \E k \in DOMAIN channel[1] : channel[1][k].hash \notin DOMAIN score_provider.score_cache

\* C7: Population::new(start_size, gene_count, unique, ...) returns a
\* Population of exactly start_size agents, each with gene_count genes.
C7_NewHoldsStartSizeAgents ==
  new_pc = "returned" =>
    /\ PopLen(new_out.pop) = new_args.start_size
    /\ \A k \in DOMAIN new_out.pop.agents :
         Len(new_out.pop.agents[k].genes) = new_args.number_of_genes

C9_CullsPartitionAtKey ==
  copies # <<>> =>
    LET k == copies[1]
        below == copies[2].agents
        above == copies[3].agents
    IN /\ DOMAIN below = {x \in DOMAIN pop.agents : x >= k}
       /\ DOMAIN above = {x \in DOMAIN pop.agents : x < k}
       /\ \A x \in DOMAIN below : below[x] = pop.agents[x]
       /\ \A x \in DOMAIN above : above[x] = pop.agents[x]
       /\ DOMAIN below \cap DOMAIN above = {}
       /\ DOMAIN below \cup DOMAIN above = DOMAIN pop.agents

\* C9's case: both clones keep something, and k is one of P's keys.
C9_Witness ==
  /\ copies # <<>>
  /\ copies[1] \in DOMAIN pop.agents
  /\ PopLen(copies[2]) >= 1
  /\ PopLen(copies[3]) >= 1

\* C10: mutate() completes and leaves the genome length unchanged for every
\* genome of length >= 1.
C10_MutateKeepsLength ==
  (agent_pc \in {"mutated", "panicked"} /\ Len(agent0.genes) >= 1) =>
    (agent_pc = "mutated" /\ Len(agent.genes) = Len(agent0.genes))

\* C11: mate(parent1, parent2) on parents that each have a gene returns, and
\* whenever it returns the child has as many genes as parent1, be parent2
\* shorter, as long or longer.
C11_MateKeepsParent1Length ==
  /\ agent_pc = "mated" => Len(agent.genes) = Len(agent0.genes)
  /\ (agent_pc \in {"mated", "mate_panicked"}
        /\ Len(agent0.genes) >= 1 /\ Len(agent_other.genes) >= 1) => agent_pc = "mated"

\* C11's case: parent2 is shorter than parent1 and the child took genes of
\* both.
C11_Witness ==
  /\ agent_pc = "mated"
  /\ Len(agent_other.genes) >= 1
  /\ Len(agent_other.genes) < Len(agent0.genes)
  /\ agent.genes # agent0.genes

\* C12: after Agent::new, and after every mutate, crossover or mate that
\* returns, the hash field is the content hash of the genes held, so two
\* agents with the same gene sequence pass has_same_genes.
C12_HashFollowsGenes ==
  /\ agent_pc \in {"fresh", "mutated", "crossed", "mated"} =>
       agent.hash = ContentHash(agent.genes)
  /\ agent_other.hash = ContentHash(agent_other.genes)
  /\ (agent_pc \in {"fresh", "mutated", "crossed", "mated"}
        /\ agent.genes = agent_other.genes) => HasSameGenes(agent, agent_other)

\* C12's case: a mutate changed the genes into those of an Agent built
\* separately.
C12_Witness ==
  /\ agent_pc = "mutated"
  /\ agent.genes # agent0.genes
  /\ agent.genes = agent_other.genes
  /\ HasSameGenes(agent, agent_other)

\* C13: rate_to_number(len, proportion, min) returns len when len < min, and
\* otherwise the larger of min and floor(len * proportion), the proportion
\* being the decimal fraction written in the call.
C13_RateToNumberIsFloor ==
  (call_pc = "returned" /\ call_args.fn = "rate_to_number") =>
    LET len == call_args.population
        min == call_args.preferred_minimum
        floor == (len * call_args.rate[1]) \div call_args.rate[2]
    IN call_out = IF len < min THEN len
                  ELSE IF floor < min THEN min ELSE floor

\* The count of the Selection of the call on the Population of the call.
SelCallCount ==
  SelectionCount(Selection(call_args.selection_type,
                           Rate(call_args.rate[1], call_args.rate[2]),
                           call_args.preferred_minimum),
                 SelPopulation(call_args.keys))

\* C14: Selection.agents with HighestScore returns exactly the
\* count(population) entries with the largest keys, and with LowestScore
\* exactly the count(population) entries with the smallest keys; 2 of 8 for
\* proportion 0.25 and preferred minimum 0.
C14_HighestLowestExactCount ==
  (call_pc = "returned" /\ call_args.fn = "agents"
     /\ call_args.selection_type \in {"HighestScore", "LowestScore"}) =>
    /\ call_out \subseteq call_args.keys
    /\ Cardinality(call_out) = SelCallCount
    /\ call_args.selection_type = "HighestScore" =>
         \A k \in call_out : \A j \in call_args.keys \ call_out : j < k
    /\ call_args.selection_type = "LowestScore" =>
         \A k \in call_out : \A j \in call_args.keys \ call_out : k < j
    /\ (Cardinality(call_args.keys) = 8 /\ call_args.rate = <<25, 100>>
          /\ call_args.preferred_minimum = 0) => Cardinality(call_out) = 2

\* C14's case: HighestScore with proportion 0.25 and preferred minimum 0 on
\* a Population of 8 returned the two largest keys.
C14_Witness ==
  /\ call_pc = "returned"
  /\ call_args.fn = "agents"
  /\ call_args.selection_type = "HighestScore"
  /\ Cardinality(call_args.keys) = 8
  /\ call_args.rate = <<25, 100>>
  /\ call_args.preferred_minimum = 0
  /\ call_out = {MaxSelKey - 1, MaxSelKey}

\* C15: Selection.agents with RandomAny returns a subset with exactly
\* count(population) entries.
C15_RandomAnyExactCount ==
  (call_pc = "returned" /\ call_args.fn = "agents"
     /\ call_args.selection_type = "RandomAny") =>
    /\ call_out \subseteq call_args.keys
    /\ Cardinality(call_out) = SelCallCount

\* C16: run_iterations applies the operations of the pipeline in list
\* order, exactly `iterations` times, each operation run starting from the
\* result of the one before; with iterations = 0 or an empty operation list
\* the Population is returned with the same entries.
C16_RunIterationsInOrder ==
  (call_pc = "returned" /\ call_args.fn = "run_iterations") =>
    LET operations == call_args.operations
        trace == call_out.trace
    IN /\ Len(trace) = call_args.iterations * Len(operations)
       /\ \A i \in 1 .. Len(trace) :
            /\ trace[i].op = operations[((i - 1) % Len(operations)) + 1]
            /\ trace[i].before = IF i = 1 THEN call_args.st.pop ELSE trace[i - 1].after
       /\ call_out.st.pop = IF trace = <<>> THEN call_args.st.pop
                            ELSE trace[Len(trace)].after
       /\ call_out.st \in RunIterations(call_args.mode, {call_args.st},
                                        call_args.iterations, operations)
       /\ (call_args.iterations = 0 \/ operations = <<>>) =>
            call_out.st.pop.agents = call_args.st.pop.agents

\* C16's case: two iterations of a two-operation list returned a Population
\* other than the one handed in.
C16_Witness ==
  /\ call_pc = "returned"
  /\ call_args.fn = "run_iterations"
  /\ call_args.iterations = 2
  /\ Len(call_args.operations) = 2
  /\ call_out.st.pop.agents # call_args.st.pop.agents

\* C17: get_score returns max(0, f + u - j) with f the genome's true
\* fitness, j the jitter bound and u drawn from 0 .. 2j: the result is never
\* negative and is within j of f unless clamped to 0, for every f >= 0 and
\* every j >= 0; for j = 0 the result is f.
C17_GetScoreWithinJitter ==
  (call_args.fn = "score_provider" /\ call_out.last.op = "get_score"
     /\ Fitness(call_args.mode, call_out.last.agents[1]).ok) =>
    LET f == Fitness(call_args.mode, call_out.last.agents[1]).score
        j == call_args.offset
        score == call_out.last.score
    IN /\ call_pc # "panicked"
       /\ \E u \in 0 .. 2 * j : score = IF f + u - j < 0 THEN 0 ELSE f + u - j
       /\ score >= 0
       /\ score # 0 => (score - f <= j /\ f - score <= j)
       /\ j = 0 => score = f

\* C18: once a genome hash has a cached fitness in a ScoreProvider, no call
\* of get_score or evaluate_scores invokes the scoring function for that hash
\* again, and the cached value is never removed or changed.
C18_CachedFitnessIsFinal ==
  [][call_args.fn = "score_provider" =>
       \A h \in DOMAIN call_out.sp.score_cache :
         /\ h \in DOMAIN call_out'.sp.score_cache
         /\ call_out'.sp.score_cache[h] = call_out.sp.score_cache[h]
         /\ call_out'.invoked[h] = call_out.invoked[h]]_vars

\* C18's case: the last of MaxScoreCalls calls was an evaluate_scores handed
\* only genomes cached before it, each scored by the host exactly once.
C18_Witness ==
  /\ call_args.fn = "score_provider"
  /\ call_out.calls = MaxScoreCalls
  /\ call_out.last.op = "evaluate_scores"
  /\ \A i \in 1 .. Len(call_out.last.agents) :
       /\ call_out.last.agents[i].hash \in DOMAIN call_out.last.before
       /\ call_out.invoked[call_out.last.agents[i].hash] = 1
  /\ Len(call_out.last.cached) = Len(call_out.last.agents)

\* C19: a fitness evaluation that returns an error never aborts the run: the
\* call goes on, and the failing agent is left out of the scoring and of
\* the cache.
C19_FitnessErrorNeverAborts ==
  (call_args.fn = "score_provider" /\ call_args.provider = "general"
     /\ call_args.offset >= 1
     /\ call_out.last.op \in {"get_score", "evaluate_scores"}) =>
    \A i \in 1 .. Len(call_out.last.agents) :
      ~Fitness(call_args.mode, call_out.last.agents[i]).ok =>
        /\ call_pc # "panicked"
        /\ call_out.last.agents[i].hash \notin DOMAIN call_out.sp.score_cache
        /\ \A c \in 1 .. Len(call_out.last.cached) :
             call_out.last.cached[c] # call_out.last.agents[i]

\* C20: a Cull operation with RandomAny selection always terminates
\* abnormally, whatever the Population: no run of such an operation returns.
C20_CullRandomAnyAborts ==
  call_args.fn = "run_iterations" =>
    \A i \in 1 .. Len(call_out.trace) :
      ~(/\ call_out.trace[i].op.operation_type = "Cull"
        /\ call_out.trace[i].op.selection.selection_type = "RandomAny")

\* C21: population_from_multilevel_sub_populations(levels, s, ..) builds
\* exactly s^levels seed Populations, consumes exactly s Populations per
\* merge in each of the `levels` rounds without running out of Populations,
\* and returns exactly one Population.
C21_MultilevelCounts ==
  call_args.fn = "multilevel" =>
    LET n == call_args.sub_populations_per_level
        seeds == 1 .. n ^ call_args.levels
    IN /\ call_pc # "panicked"
       /\ call_out.phase # "seeding" =>
            UNION {call_out.populations[i] : i \in 1 .. Len(call_out.populations)}
              \cup UNION {call_out.new_populations[i] :
                            i \in 1 .. Len(call_out.new_populations)}
              \cup call_out.population \cup call_out.result = seeds
       /\ \A i \in 1 .. Len(call_out.merges) : call_out.merges[i].taken = n
       /\ \A l \in 0 .. call_args.levels - 1 :
            (call_out.level < l
               \/ (call_out.phase \in {"level_done", "levels_done"}
                     /\ call_out.level = l)) =>
              Cardinality({i \in 1 .. Len(call_out.merges) :
                             call_out.merges[i].level = l}) = n ^ l
       /\ call_pc = "returned" =>
            /\ call_out.populations = <<>>
            /\ call_out.result = seeds
            /\ call_out.level = 0

\* C21's case: a call with two levels or more and two sub-populations or
\* more per level returned.
C21_Witness ==
  /\ call_args.fn = "multilevel"
  /\ call_pc = "returned"
  /\ call_args.levels >= 2
  /\ call_args.sub_populations_per_level >= 2
  /\ Len(call_out.merges) >= 3

\* C22: a worker whose channel send fails because the receiver was already
\* dropped finishes normally: the failure is ignored, no error is raised and
\* no manager state changes.
C22_FailedSendIsIgnored ==
  [][(WorkerStep /\ SendFails(mgr_pc)) =>
       /\ \A i \in 1 .. Len(workers) :
            (workers[i].pc = "running" /\ workers'[i].pc = "panicked") =>
              ~workers'[i].send_failed
       /\ \A i \in 1 .. Len(workers) :
            workers'[i].send_failed => workers'[i].pc = "exited"
       /\ UNCHANGED <<main_population, score_provider, number_of_child_threads,
                      current_highest, max_child_threads, mgr_pc, goal, channel>>]_vars

\* C22's case: the Manager was dropped while a worker was running, and the
\* worker has exited after its send failed.
C22_Witness ==
  /\ mgr_pc = "dropped"
  /\ \E i \in 1 .. Len(workers) :
       workers[i].send_failed /\ workers[i].pc = "exited" /\ workers[i].sent = 0

\* C23: if the freshly seeded main Population already holds a rank key
\* >= goal, run(goal) returns right after the seeding, without a spawn or an
\* evolve pass: from the first loop test the manager thread can only return.
C23_SeededGoalReturnsAtOnce ==
  [][(/\ mgr_pc = "check"
      /\ cycles = 0
      /\ PopLen(main_population) > 0
      /\ SetMax(DOMAIN main_population.agents) >= goal) =>
       mgr_pc' \in {"check", "returned"}]_vars

\* C24, as stated: the live-worker counter is the number of workers spawned
\* less the number of snapshots drained, across cycles and run calls, and
\* after each top-up it equals max_child_threads.
C24_CounterAfterTopUpIsBudget ==
  /\ number_of_child_threads = Len(workers) - Drained
  /\ (mgr_pc = "topup" /\ ~(number_of_child_threads < max_child_threads)) =>
       number_of_child_threads = max_child_threads

\* C24, amended: the counter is the number of workers spawned less the
\* number of snapshots drained; after each top-up it is at least
\* max_child_threads, and it is above it only when this run call has not
\* spawned and the budget was lowered since an earlier call.
C24_CounterIsSpawnedMinusDrained ==
  /\ number_of_child_threads = Len(workers) - Drained
  /\ mgr_pc # "panicked_underflow"
  /\ (mgr_pc = "topup" /\ ~(number_of_child_threads < max_child_threads)) =>
       /\ number_of_child_threads >= max_child_threads
       /\ number_of_child_threads > max_child_threads =>
            (run_spawned = 0 /\ max_child_threads < budget_high)
       /\ run_spawned >= 1 => number_of_child_threads = max_child_threads

\* C24's case: in a second run call the pool was topped up again after a
\* snapshot of this call's worker was drained.
C24_Witness ==
  /\ runs = 2
  /\ mgr_pc = "topup"
  /\ cycles >= 1
  /\ run_spawned >= 2
  /\ Drained >= 1
  /\ number_of_child_threads = max_child_threads

\* C25: the drain step never blocks on a running worker.  The channel never
\* holds more snapshots than there are live workers; while the manager
\* thread is draining, one of its two steps is always possible, whether or
\* not workers are still running; a step of it takes exactly the snapshot at
\* the head of the channel and stays in the drain, or finds the channel
\* empty and ends the drain without touching the Population or the counter.
C25_DrainNeverBlocks ==
  /\ [](/\ Len(channel) <= number_of_child_threads
        /\ mgr_pc = "drain" => ENABLED (DrainOne \/ Recompute))
  /\ [][(mgr_pc = "drain" /\ ~WorkerStep) =>
          \/ /\ channel # <<>>
             /\ channel' = Tail(channel)
             /\ mgr_pc' = "drain"
             /\ number_of_child_threads' = number_of_child_threads - 1
             /\ main_population' =
                  InsertAll(main_population, SnapshotEntries(Head(channel)))
          \/ /\ channel = <<>>
             /\ mgr_pc' \in {"check", "panicked_recompute"}
             /\ UNCHANGED <<main_population, number_of_child_threads, channel>>]_vars

\* C25's case: the drain has ended and the pass is complete while a worker
\* of this run call is still running and another one's snapshot was merged.
C25_Witness ==
  /\ mgr_pc = "check"
  /\ cycles >= 1
  /\ Drained >= 1
  /\ \E i \in 1 .. Len(workers) : workers[i].pc = "running"

\* C26: a Cull removes exactly the agents its Selection selects and keeps
\* all others: with LowestScore the count(population) lowest-keyed agents,
\* with HighestScore the count(population) highest-keyed agents.
C26_CullRemovesSelected ==
  (call_pc = "returned" /\ call_args.fn = "cull_agents"
     /\ call_args.selection_type \in {"HighestScore", "LowestScore"}) =>
    LET before == SelPopulation(call_args.keys)
        removed == call_args.keys \ DOMAIN call_out.agents
    IN /\ DOMAIN call_out.agents \subseteq call_args.keys
       /\ \A k \in DOMAIN call_out.agents : call_out.agents[k] = before.agents[k]
       /\ Cardinality(removed) = SelCallCount
       /\ call_args.selection_type = "HighestScore" =>
            \A k \in removed : \A j \in DOMAIN call_out.agents : j < k
       /\ call_args.selection_type = "LowestScore" =>
            \A k \in removed : \A j \in DOMAIN call_out.agents : k < j

\* C27: a Cull with LowestScore or HighestScore, any proportion in [0,1]
\* and any preferred minimum, never turns a non-empty Population into an
\* empty one.
C27_CullNeverEmpties ==
  (call_pc = "returned" /\ call_args.fn = "cull_agents"
     /\ call_args.selection_type \in {"HighestScore", "LowestScore"}
     /\ call_args.keys # {}) =>
    PopLen(call_out) > 0

\* C28: a Mutate on a Population of size n whose Selection chooses s agents
\* returns a Population of size n + s, and no entry it held is lost or
\* replaced.
C28_MutateGrowsBySubset ==
  call_args.fn = "run_iterations" =>
    \A i \in 1 .. Len(call_out.trace) :
      LET t == call_out.trace[i]
      IN t.op.operation_type = "Mutate" =>
           /\ \E K \in SelectionAgents(t.op.selection, t.before) :
                PopLen(t.after) = PopLen(t.before) + Cardinality(K)
           /\ \A k \in DOMAIN t.before.agents :
                /\ k \in DOMAIN t.after.agents
                /\ t.after.agents[k] = t.before.agents[k]

\* C29: a Crossover produces at most count(population) children, and never
\* breeds a child from a pair whose two members have the same genome hash,
\* an agent paired with itself included: the pairs are drawn among the
\* selected agents, none has two members of one hash, there are at most as
\* many as agents selected, and each makes one child.
C29_CrossoverChildrenBounded ==
  call_args.fn = "crossover_agents" =>
    LET count == SelectionCount(CrossSelection, call_args.pop)
        pairs == call_out.pairs
        children == call_out.children
    IN /\ Cardinality(call_out.selected) <= count
       /\ Len(pairs) <= Cardinality(call_out.selected)
       /\ \A i \in 1 .. Len(pairs) :
            /\ pairs[i][1].hash # pairs[i][2].hash
            /\ \E k1, k2 \in call_out.selected :
                 pairs[i] = <<call_args.pop.agents[k1], call_args.pop.agents[k2]>>
       /\ Len(children) <= Len(pairs)
       /\ Len(children) <= count
       /\ \A i \in 1 .. Len(children) :
            children[i][2] \in MateOutcomes(pairs[i][1], pairs[i][2])
       /\ call_pc = "returned" =>
            /\ Len(children) = Len(pairs)
            /\ PopLen(call_out.st.pop) <= PopLen(call_args.pop) + count
            /\ call_out.st.pop = InsertAll(call_args.pop, children)

\* C29's case: three agents were selected, two of them with the same genome,
\* and the call returned with at least one child and fewer children than
\* agents selected.
C29_Witness ==
  /\ call_args.fn = "crossover_agents"
  /\ call_pc = "returned"
  /\ Cardinality(call_out.selected) = 3
  /\ \E k1, k2 \in call_out.selected :
       k1 # k2 /\ call_args.pop.agents[k1].hash = call_args.pop.agents[k2].hash
  /\ Len(call_out.children) >= 1
  /\ Len(call_out.children) < 3

\* C30: in Population::new an agent whose jittered key k is free is stored
\* at k; one whose key k is occupied is stored at the largest unoccupied
\* key below k; an entry is overwritten only when every key from k down to
\* 0 is occupied, and then only the entry at key 0.  All other entries stay.
C30_NewCollisionPolicy ==
  (call_args.fn = "population_new" /\ call_out.last # <<>>) =>
    LET before == DOMAIN call_out.last.before.agents
        k == call_out.last.score
        key == call_out.last.key
        free == (0 .. k) \ before
    IN /\ key = IF free # {} THEN SetMax(free) ELSE 0
       /\ key \in before => (key = 0 /\ \A j \in 0 .. k : j \in before)
       /\ DOMAIN call_out.st.pop.agents = before \cup {key}
       /\ call_out.st.pop.agents[key] = call_out.last.agent
       /\ \A j \in before \ {key} :
            call_out.st.pop.agents[j] = call_out.last.before.agents[j]

\* C30's case: the drawn key was 2, every key from 2 down to 0 was occupied,
\* and the entry at key 0 was replaced by another agent.
C30_Witness ==
  /\ call_args.fn = "population_new"
  /\ call_out.last # <<>>
  /\ call_out.last.score = 2
  /\ {0, 1, 2} \subseteq DOMAIN call_out.last.before.agents
  /\ call_out.last.key = 0
  /\ call_out.last.before.agents[0] # call_out.last.agent

\* C31: in unique mode, after cull_all_below or cull_all_above the register
\* is exactly the set of hashes of the retained agents, whatever it held
\* before; an insert of a genome that only culled agents held is accepted,
\* at any key, and an insert of a retained genome leaves the Population as
\* it is.
C31_CullRebuildsRegister ==
  (pop_op.op \in {"cull_all_below", "cull_all_above"} /\ pop.unique_agents) =>
    LET retained == {pop.agents[k].hash : k \in DOMAIN pop.agents}
        culled == {pop_op.before.agents[k].hash :
                     k \in DOMAIN pop_op.before.agents \ DOMAIN pop.agents}
    IN /\ pop.register = retained
       /\ culled \cap retained = {}
       /\ \A a \in PopAgents : \A score \in 0 .. MaxKey :
            /\ a.hash \in culled =>
                 /\ score \in DOMAIN PopInsert(pop, score, a).agents
                 /\ PopInsert(pop, score, a).agents[score] = a
                 /\ PopInsert(pop, score, a).register = retained \cup {a.hash}
            /\ a.hash \in retained => PopInsert(pop, score, a) = pop

\* C31's case: the register held the hash of a genome that was no longer in
\* the map; the cull removed an agent and kept another.
C31_Witness ==
  /\ pop_op.op \in {"cull_all_below", "cull_all_above"}
  /\ pop.unique_agents
  /\ pop_op.before.register #
       {pop_op.before.agents[k].hash : k \in DOMAIN pop_op.before.agents}
  /\ PopLen(pop) >= 1
  /\ PopLen(pop) < PopLen(pop_op.before)

\* C32: evaluate_scores returns, in input order, exactly the agents whose
\* hash was cached before the call or whose fitness evaluation succeeds; the
\* cache gains an entry, the fitness, for each newly evaluated survivor and
\* none for a failed agent, and its old entries stay.
C32_EvaluateScoresKeepsSurvivors ==
  (call_args.fn = "score_provider" /\ call_out.last.op = "evaluate_scores") =>
    LET before == call_out.last.before
        agents == call_out.last.agents
        Survives(a) == a.hash \in DOMAIN before \/ Fitness(call_args.mode, a).ok
        cache == call_out.sp.score_cache
    IN /\ call_out.last.cached = SelectSeq(agents, Survives)
       /\ DOMAIN cache =
            DOMAIN before \cup {agents[i].hash : i \in {j \in 1 .. Len(agents) :
                                                          Survives(agents[j])}}
       /\ \A h \in DOMAIN before : cache[h] = before[h]
       /\ \A i \in 1 .. Len(agents) :
            /\ (agents[i].hash \notin DOMAIN before /\ Survives(agents[i])) =>
                 cache[agents[i].hash] = Fitness(call_args.mode, agents[i]).score
            /\ ~Survives(agents[i]) => agents[i].hash \notin DOMAIN cache
       /\ call_out.sp.offset = call_args.offset

\* C32's case: a batch of two whose first agent fails and whose second is
\* evaluated for the first time: the second alone is returned and cached.
C32_Witness ==
  /\ call_args.fn = "score_provider"
  /\ call_out.last.op = "evaluate_scores"
  /\ Len(call_out.last.agents) = 2
  /\ ~Fitness(call_args.mode, call_out.last.agents[1]).ok
  /\ call_out.last.agents[2].hash \notin DOMAIN call_out.last.before
  /\ call_out.last.cached = <<call_out.last.agents[2]>>
  /\ call_out.last.agents[2].hash \in DOMAIN call_out.sp.score_cache

\* C33: the cull that ends a merge round retains the top fraction
\* 1 - 1/sub_populations_per_level of the agents: the retained agents are
\* the highest-keyed ones, and their number is within one of
\* len * (s - 1) / s (half of them for s = 2, two thirds for s = 3).
C33_MergeCullKeepsTopFraction ==
  (call_args.fn = "merge_cull" /\ call_pc = "returned"
     /\ call_args.sub_populations_per_level >= 2) =>
    LET s == call_args.sub_populations_per_level
        len == Cardinality(call_args.keys)
        kept == DOMAIN call_out.pop.agents
    IN /\ kept \subseteq call_args.keys
       /\ \A k \in kept : \A j \in call_args.keys \ kept : j < k
       /\ Cardinality(kept) * s > len * (s - 1) - s
       /\ Cardinality(kept) * s < len * (s - 1) + s

\* The sum of f[i] over i in 1 .. n.
RECURSIVE SumTo(_, _)
SumTo(f, n) == IF n = 0 THEN 0 ELSE f[n] + SumTo(f, n - 1)

\* C34: the threaded composer spawns exactly sub_populations_per_level
\* threads, starts the final merge only after all of them have been joined,
\* and every thread that has ended has built its share, so that the call
\* builds s^levels seed Populations and makes as many merges as the
\* single-threaded composer called with the same levels.
C34_ThreadedMatchesSingle ==
  call_args.fn = "threaded_multilevel" =>
    LET s == call_args.sub_populations_per_level
        handles == call_out.handles
    IN /\ Len(handles) <= s
       /\ call_out.phase # "spawning" => Len(handles) = s
       /\ call_out.phase = "merged" =>
            /\ call_out.joined = s
            /\ \A i \in 1 .. s : handles[i].pc = "done"
       /\ call_pc # "panicked"
       /\ \A i \in 1 .. Len(handles) : handles[i].pc \in {"running", "done"}
       /\ call_pc = "returned" =>
            /\ SumTo([i \in 1 .. s |-> handles[i].seeds], s)
                 = NumberOfInitialPopulations(s, call_args.levels)
            /\ SumTo([i \in 1 .. s |-> handles[i].merges], s) + call_out.final_merges
                 = MergeRounds(s, call_args.levels)

\* C35: a Cull with LowestScore selection and preferred_minimum 1 removes at
\* least one agent from every non-empty Population.
C35_CullLowestRemovesOne ==
  (call_pc = "returned" /\ call_args.fn = "cull_agents"
     /\ call_args.selection_type = "LowestScore"
     /\ call_args.preferred_minimum = 1
     /\ call_args.keys # {}) =>
    PopLen(call_out) < Cardinality(call_args.keys)

\* C36: with the Manager's pipeline of Mutate and LowestScore Cull
\* operations, no step taken inside a run call, a merge of a worker snapshot
\* included, lowers the largest key of the main Population, and none lowers
\* current_highest.
C36_BestRankNeverDecreases ==
  [][Running =>
       /\ PopLen(main_population) > 0 =>
            /\ PopLen(main_population') > 0
            /\ SetMax(DOMAIN main_population'.agents)
                 >= SetMax(DOMAIN main_population.agents)
       /\ current_highest' >= current_highest]_vars

\* The key k is within the jitter bound of the fitness of agent a, or is 0
\* with that fitness not above the bound.
WithinJitter(k, a) ==
  LET fitness == SumGenes(a.genes)
  IN \/ (k - fitness <= Offset /\ fitness - k <= Offset)
     \/ (k = 0 /\ fitness <= Offset)

\* The Populations a run_iterations call has seen: the one handed in, built
\* by Population::new, and the one after each operation.
RunPopulations ==
  {call_args.st.pop} \cup {call_out.trace[i].after : i \in 1 .. Len(call_out.trace)}

\* C37, as stated: every rank key under which an agent is stored, by
\* Population::new, Mutate or Crossover, is within the jitter bound of that
\* agent's fitness (or is 0 when the fitness is below the bound).
C37_StoredKeyWithinJitter ==
  call_args.fn = "run_iterations" =>
    \A p \in RunPopulations : \A k \in DOMAIN p.agents : WithinJitter(k, p.agents[k])

\* C37, amended: no stored key is above the agent's fitness by the jitter
\* bound or more; an entry that a Mutate or a Crossover adds or replaces is
\* stored under a key within the jitter bound of its fitness (or 0); only a
\* key assigned by Population::new can be further below the fitness.
C37_InsertedKeyWithinJitter ==
  call_args.fn = "run_iterations" =>
    /\ \A p \in RunPopulations : \A k \in DOMAIN p.agents :
         k < SumGenes(p.agents[k].genes) + Offset
    /\ \A i \in 1 .. Len(call_out.trace) :
         LET t == call_out.trace[i]
         IN t.op.operation_type \in {"Mutate", "Crossover"} =>
              \A k \in DOMAIN t.after.agents :
                (k \notin DOMAIN t.before.agents \/ t.after.agents[k] # t.before.agents[k])
                  => WithinJitter(k, t.after.agents[k])

\* C37's case: Population::new stored an agent more than the jitter bound
\* below its fitness, and a Mutate then added a child under a key below its
\* fitness.
C37_Witness ==
  /\ call_args.fn = "run_iterations"
  /\ \E k \in DOMAIN call_args.st.pop.agents :
       ~WithinJitter(k, call_args.st.pop.agents[k])
  /\ \E i \in 1 .. Len(call_out.trace) :
       LET t == call_out.trace[i]
       IN /\ t.op.operation_type = "Mutate"
          /\ \E k \in DOMAIN t.after.agents \ DOMAIN t.before.agents :
               k < SumGenes(t.after.agents[k].genes)

\* C38: in a Population with unique = true, after any sequence of insert,
\* remove and cull calls (Population::new is a sequence of accepted
\* inserts), no two entries of the agent map hold genomes with the same
\* hash, and the hash of every genome in the map is in the register.
C38_UniqueMapWithinRegister ==
  pop.unique_agents =>
    /\ \A k1, k2 \in DOMAIN pop.agents :
         k1 # k2 => pop.agents[k1].hash # pop.agents[k2].hash
    /\ \A k \in DOMAIN pop.agents : pop.agents[k].hash \in pop.register

\* C38's case: the register holds the hash of a genome that an insert
\* replaced, and an insert of a genome that is in the map was just refused.
C38_Witness ==
  /\ pop.unique_agents
  /\ PopLen(pop) >= 2
  /\ Cardinality(pop.register) > PopLen(pop)
  /\ pop_op.op = "insert"
  /\ pop = pop_op.before
  /\ \E k \in DOMAIN pop.agents : pop.agents[k].hash = pop_op.hash

\* The number of items in the groups.
RECURSIVE GroupsLen(_)
GroupsLen(groups) ==
  IF groups = <<>> THEN 0 ELSE Len(Head(groups)) + GroupsLen(Tail(groups))

====
